---- MODULE Spec2Model ----
(***************************************************************************)
(* Model of twitch_obs_queue: the fairness queue engine (src/src/queue.rs), *)
(* the request handlers that call it (src/src/web.rs), the admission       *)
(* pipeline of the EventSub read loop (src/src/twitch.rs) and the dedup    *)
(* ledger with its retention sweep (src/src/db.rs, src/src/main.rs).       *)
(*                                                                         *)
(* Also the session task's state machine (run_eventsub_loop) and the token *)
(* store with its expiry checks (src/src/twitch.rs, src/src/web.rs).       *)
(*                                                                         *)
(* Tables are sets (or, for the append-only participations table, a        *)
(* sequence in insertion order) of rows.  Each queue operation runs in one *)
(* SQLite transaction (pool.begin .. commit) and is one atomic step in     *)
(* Spec, SpecApp, SpecScenario and SpecFilter; SpecTx takes the same       *)
(* operations statement by statement.                                      *)
(***************************************************************************)
EXTENDS Integers, Sequences, FiniteSets, TLC

\* ------------------------------------------------------------------ bounds

\* util::now_epoch() takes the values 0..MaxTime.
MaxTime == 2

\* The participations table holds at most MaxPart rows.
MaxPart == 1

\* ---------------------------------------------------------- configuration

\* config.queue.participation_window_secs (seconds of lookback).
participation_window_secs == 1

\* config.queue.processed_message_ttl_secs (ledger retention).
processed_message_ttl_secs == 1

\* ------------------------------------------------------------------ values

\* Participants the engine specification enqueues.
Users == {"A", "B", "C"}

\* The participants of the A, B, C + newcomer scenario.
ScenarioUsers == Users \cup {"N"}

\* Queue item ids (Uuid::new_v4): opaque, only their distinctness matters.
Ids == {1, 2, 3, 4, 5}

\* Participants of the program specification (notifications and handlers).
AppUsers == {"A", "B"}

\* Avatar URLs a NewQueueUser can carry.
Urls == {"img1", "img2"}

\* The avatar URL the engine specification passes (the engine only stores it).
EngineUrls == {"img1"}

\* const SUB_TYPE_REDEMPTION_ADD
SUB_TYPE_REDEMPTION_ADD == "channel.channel_points_custom_reward_redemption.add"

\* The values config.twitch.target_reward_id can be loaded with: unset (the
\* default String::new()), whitespace only, or a reward id.
TargetRewardIds == {"", " ", "reward1"}

\* The notification frames upstream delivers, and may deliver again: the
\* envelope's message_id and subscription_type, whether the payload parses as
\* NotificationPayload, and the event's user_id and reward.id.
Frames ==
    { [message_id |-> "m1", subscription_type |-> SUB_TYPE_REDEMPTION_ADD,
       payload_ok |-> TRUE, user_id |-> "A", reward_id |-> "reward1"],
      [message_id |-> "m2", subscription_type |-> SUB_TYPE_REDEMPTION_ADD,
       payload_ok |-> TRUE, user_id |-> "B", reward_id |-> "reward1"],
      [message_id |-> "m3", subscription_type |-> SUB_TYPE_REDEMPTION_ADD,
       payload_ok |-> TRUE, user_id |-> "A", reward_id |-> "reward2"] }

\* A notification frame of another subscription type, with an event that
\* would pass the filter were it a redemption.
OtherTypeFrames ==
    { [message_id |-> "m4", subscription_type |-> "channel.follow",
       payload_ok |-> TRUE, user_id |-> "A", reward_id |-> "reward1"] }

VARIABLES
    now,                \* util::now_epoch()
    queue_items,        \* table queue_items: set of rows
    participations,     \* table participations: sequence of rows, in insertion order
    processed_messages, \* table processed_messages (the dedup ledger): set of rows
    in_flight,          \* the read loop's position: "" between frames, else the
                        \* message_id of the notification awaiting its profile
                        \* lookup and enqueue_user
    enqueued_msgs,      \* history: message ids whose enqueue_user returned Added
    stopped_msgs,       \* history: message ids written to the ledger whose
                        \* handling then ended without an Added entry
    last,               \* the last operation: its arguments, the position of the
                        \* row it looked up, and what it returned
    target_reward_id,   \* config.twitch.target_reward_id, loaded at start
    pc,                 \* run_eventsub_loop's position: "outer" (top of the
                        \* outer loop), "read" (in the read loop), "exited"
                        \* (the function returned Err through a `?`)
    need_subscribe,     \* run_eventsub_loop's local need_subscribe
    ws_url,             \* run_eventsub_loop's local ws_url
    oauth_token,        \* table oauth_tokens (the row with id 1, if any)
    token,              \* run_eventsub_loop's local token, read per iteration
    broadcaster_id,     \* the stored broadcaster id, "" when none is stored
    loop_exit,          \* history: how the last finished read loop ended
    resub_pending,      \* history: a read loop has ended without
                        \* session_reconnect and no welcome was handled since
    ever_welcomed,      \* history: a welcome was handled since process start
    revoked_pending,    \* history: a revocation frame was handled and no
                        \* welcome since
    since_create,       \* history: "never" until the first subscription is
                        \* created, "quiet" from a creation on, "event" once
                        \* a revocation frame or a read-loop exit without
                        \* session_reconnect has followed a creation
    txs,                \* the open transaction of each client of the engine:
                        \* its call, the tables after each of its write
                        \* statements, how many of them ran, and whether a
                        \* commit has overtaken its read snapshot
    db_lock,            \* the client holding the database's write lock, or ""
    user_cache,         \* table user_cache: set of rows, one per user_id
    user_cache_ttl_secs,\* config.twitch.user_cache_ttl_secs, loaded at start
    profile_last,       \* history: the last call of
                        \* get_profile_image_url_cached, what Helix answered
                        \* if it was asked, and what the call returned
    upstream_subs,      \* the EventSub subscriptions Helix holds for the client
    cleanups            \* the detached cleanup tasks that have not finished:
                        \* where each one is and the subscriptions it listed

\* The variables of the session task and of the token store.
sessionVars == <<pc, need_subscribe, ws_url, oauth_token, token, broadcaster_id,
                 loop_exit, resub_pending, ever_welcomed, revoked_pending, since_create>>

\* The variables of the statement-level view of the engine's transactions.
txVars == <<txs, db_lock>>

\* The variables of the profile cache.
cacheVars == <<user_cache, user_cache_ttl_secs, profile_last>>

\* The variables of the stale-subscription cleanup.
cleanupVars == <<upstream_subs, cleanups>>

vars == <<now, queue_items, participations, processed_messages, in_flight,
          enqueued_msgs, stopped_msgs, last, target_reward_id, sessionVars, txVars, cacheVars, cleanupVars>>

\* The variables of the admission pipeline.
pipelineVars == <<processed_messages, in_flight, enqueued_msgs, stopped_msgs>>

\* ------------------------------------------------------------ queue engine

\* struct NewQueueUser (login and display name are copied like the avatar URL).
NewQueueUser(user_id, url) == [user_id |-> user_id, profile_image_url |-> url]

\* A count of all of the user's participations, whatever their age.
count_participationsAllTime(parts, user_id, window_start) ==
    Cardinality({i \in 1..Len(parts) : parts[i].user_id = user_id})

\* SELECT COUNT(*) FROM participations WHERE user_id = ?1 AND completed_at >= ?2
count_participations(parts, user_id, window_start) ==
    Cardinality({i \in 1..Len(parts) :
        parts[i].user_id = user_id /\ parts[i].completed_at >= window_start})

\* The first row of ORDER BY position ASC (ties, which a dense queue does not
\* have, are broken by id).
FirstByPosition(q) ==
    CHOOSE r \in q : \A r2 \in q :
        r.position < r2.position \/ (r.position = r2.position /\ r.id <= r2.id)

\* SELECT .. FROM queue_items ORDER BY position ASC, as a Vec.
RECURSIVE OrderByPosition(_)
OrderByPosition(q) ==
    IF q = {} THEN <<>>
    ELSE LET r == FirstByPosition(q) IN <<r>> \o OrderByPosition(q \ {r})

\* Mutant of CountExceeds: ties go ahead of earlier arrivals.
CountExceedsOrEqual(c, my_count) == c >= my_count

\* `if c > my_count` of the insertion scan.
CountExceeds(c, my_count) == c > my_count

\* A scan that never stops early: the new entry goes to the end.
ScanInsertPosAtEnd(current, idx, my_count, parts, window_start) == Len(current)

\* The loop `for (idx, item) in current.iter().enumerate()` from index idx on:
\* the first index whose count exceeds my_count, else current.len().
RECURSIVE ScanInsertPos(_, _, _, _, _)
ScanInsertPos(current, idx, my_count, parts, window_start) ==
    IF idx >= Len(current) THEN Len(current)
    ELSE IF CountExceeds(
                count_participations(parts, current[idx + 1].user_id, window_start),
                my_count)
         THEN idx
         ELSE ScanInsertPos(current, idx + 1, my_count, parts, window_start)

\* Mutant of ShiftDown: the row at the insertion position is not shifted.
ShiftDownAfter(q, insert_pos) ==
    {IF r.position > insert_pos THEN [r EXCEPT !.position = r.position + 1] ELSE r
        : r \in q}

\* UPDATE queue_items SET position = position + 1 WHERE position >= ?1
ShiftDown(q, insert_pos) ==
    {IF r.position >= insert_pos THEN [r EXCEPT !.position = r.position + 1] ELSE r
        : r \in q}

\* Mutant of ExistingEntry: the membership check finds nothing.
ExistingEntryNone(q, user_id) == {}

\* SELECT .. FROM queue_items WHERE user_id = ?1 (the rows; LIMIT 1 takes one).
ExistingEntry(q, user_id) == {r \in q : r.user_id = user_id}

\* Mutant of enqueue_user's AlreadyQueued branch: the stored avatar is refreshed.
AlreadyQueuedRefresh(q, user) ==
    {IF r.user_id = user.user_id
        THEN [r EXCEPT !.profile_image_url = user.profile_image_url] ELSE r : r \in q}

\* The AlreadyQueued branch: tx.rollback(), nothing written.
AlreadyQueuedKeep(q, user) == q

\* enqueue_user, as a function of the tables, the clock and the fresh uuid `id`:
\* the outcome and the queue_items table after commit.
enqueue_user(q, parts, t, user, id) ==
    LET window_start == t - participation_window_secs IN
    IF ExistingEntry(q, user.user_id) # {}
    THEN [outcome |-> "AlreadyQueued", queue_items |-> AlreadyQueuedKeep(q, user),
          id |-> 0, position |-> -1]
    ELSE LET current == OrderByPosition(q)
             my_count == count_participations(parts, user.user_id, window_start)
             insert_pos == ScanInsertPos(current, 0, my_count, parts, window_start)
             row == [id |-> id, user_id |-> user.user_id,
                     profile_image_url |-> user.profile_image_url,
                     position |-> insert_pos]
         IN [outcome |-> "Added",
             queue_items |-> ShiftDown(q, insert_pos) \cup {row},
             id |-> id, position |-> insert_pos]

\* Mutant of CloseGap: the row right behind the deleted one keeps its position.
CloseGapSkipNext(q, pos) ==
    {IF r.position > pos + 1 THEN [r EXCEPT !.position = r.position - 1] ELSE r
        : r \in q}

\* UPDATE queue_items SET position = position - 1 WHERE position > ?1
CloseGap(q, pos) ==
    {IF r.position > pos THEN [r EXCEPT !.position = r.position - 1] ELSE r
        : r \in q}

\* A removal that records a participation whatever its mode.
RecordParticipationAnyMode(parts, mode, user_id, t) ==
    Append(parts, [user_id |-> user_id, completed_at |-> t])

\* `if matches!(mode, DeleteMode::Completed) { INSERT INTO participations .. }`
RecordParticipation(parts, mode, user_id, t) ==
    IF mode = "Completed"
    THEN Append(parts, [user_id |-> user_id, completed_at |-> t])
    ELSE parts

\* delete_item: the result and both tables after commit (or after rollback).
delete_item(q, parts, t, id, mode) ==
    LET found == {r \in q : r.id = id} IN
    IF found = {}
    THEN [result |-> "Err", err |-> "queue item not found", position |-> -1,
          user_id |-> "", queue_items |-> q, participations |-> parts]
    ELSE LET item == CHOOSE r \in found : TRUE IN
         [result |-> "Ok", err |-> "", position |-> item.position,
          user_id |-> item.user_id,
          queue_items |-> CloseGap(q \ found, item.position),
          participations |-> RecordParticipation(parts, mode, item.user_id, t)]

\* Mutant of SwapPositions: only the moved row is updated.
SwapPositionsFirstOnly(q, item, swap, new_pos) ==
    {IF r.id = item.id THEN [r EXCEPT !.position = new_pos] ELSE r : r \in q}

\* The two UPDATE queue_items SET position = ?1 WHERE id = ?2 statements.
SwapPositions(q, item, swap, new_pos) ==
    LET q1 == {IF r.id = item.id THEN [r EXCEPT !.position = new_pos] ELSE r : r \in q}
    IN {IF r.id = swap.id THEN [r EXCEPT !.position = item.position] ELSE r : r \in q1}

\* Mutant of NoSwapPartner: a move past either end wraps around.
NoSwapPartnerWrap(q, item, new_pos) ==
    LET n == Cardinality(q)
        target == IF new_pos < 0 THEN n - 1 ELSE 0
        other == {r \in q : r.position = target /\ r.id # item.id}
    IN IF other = {} THEN q
       ELSE SwapPositions(q, item, CHOOSE r \in other : TRUE, target)

\* `return Ok(())` after tx.rollback() when new_pos < 0 or no row holds new_pos.
NoSwapPartner(q, item, new_pos) == q

\* move_by: the result and the queue_items table afterwards.
move_by(q, id, delta) ==
    LET found == {r \in q : r.id = id} IN
    IF found = {}
    THEN [result |-> "Err", err |-> "queue item not found", moved |-> FALSE,
          position |-> -1, queue_items |-> q]
    ELSE LET item == CHOOSE r \in found : TRUE
             new_pos == item.position + delta
             swaps == {r \in q : r.position = new_pos}
         IN IF new_pos < 0 \/ swaps = {}
            THEN [result |-> "Ok", err |-> "", moved |-> FALSE,
                  position |-> item.position,
                  queue_items |-> NoSwapPartner(q, item, new_pos)]
            ELSE [result |-> "Ok", err |-> "", moved |-> TRUE,
                  position |-> item.position,
                  queue_items |-> SwapPositions(q, item, CHOOSE r \in swaps : TRUE, new_pos)]

\* move_up / move_down
move_up(q, id) == move_by(q, id, -1)
move_down(q, id) == move_by(q, id, 1)

\* --------------------------------------------------------------- handlers

\* api_queue_delete's map_err: e.to_string().contains("not found").
DeleteErrorToApiError(err) ==
    IF err = "queue item not found" THEN "NotFound" ELSE "Internal"

\* `?` on anyhow::Error in api_queue_move_up / api_queue_move_down:
\* ApiError::Internal(#[from] anyhow::Error).
MoveErrorToApiError(err) == "Internal"

\* ------------------------------------------------------- dedup ledger

\* db::is_processed_message
is_processed_message(pm, message_id) == \E r \in pm : r.message_id = message_id

\* db::mark_processed_message: INSERT OR IGNORE on the primary key message_id.
mark_processed_message(pm, message_id, received_at) ==
    IF \E r \in pm : r.message_id = message_id THEN pm
    ELSE pm \cup {[message_id |-> message_id, received_at |-> received_at]}

\* db::cleanup_processed_messages: DELETE .. WHERE received_at < ?1
cleanup_processed_messages(pm, cutoff) == {r \in pm : ~(r.received_at < cutoff)}

\* A membership check that never finds the user.
is_user_queuedNever(q, user_id) == FALSE

\* queue::is_user_queued
is_user_queued(q, user_id) == \E r \in q : r.user_id = user_id

\* util::is_blank
is_blank(s) == s = "" \/ s = " "

\* Mutant of TargetFilter: without the check that a target is configured.
TargetFilterMatchOnly(target, reward_id) ==
    IF ~is_blank(target) /\ reward_id # target THEN "non_target"
    ELSE ""

\* The notification's two reward checks: the `continue` taken, "" if none.
TargetFilter(target, reward_id) ==
    IF ~is_blank(target) /\ reward_id # target THEN "non_target"
    ELSE IF is_blank(target) THEN "target_not_set"
    ELSE ""

\* What get_profile_image_url_cached returns to the pipeline: Ok(url) from the
\* cache or from Helix, or Err when Helix fails and nothing is cached.
ProfileResults ==
    {[ok |-> TRUE, url |-> u] : u \in Urls} \cup {[ok |-> FALSE, url |-> ""]}

\* What helix_get_user_by_id returns: Ok with the user's profile_image_url, or
\* Err (the request fails, the status is an error, or no user comes back).
HelixUserResults ==
    {[ok |-> TRUE, url |-> u] : u \in Urls} \cup {[ok |-> FALSE, url |-> ""]}

\* The state of profile_last before any profile lookup.
NoProfileCall ==
    [message_id |-> "", user_id |-> "", called |-> FALSE,
     helix |-> [ok |-> FALSE, url |-> ""], cache_written |-> FALSE,
     ok |-> FALSE, url |-> ""]

\* A cache lookup that never finds a row.
get_cached_user_profileNone(cache, user_id) == {}

\* db::get_cached_user_profile: the user's row of user_cache, if any (as a set
\* of at most one row).
get_cached_user_profile(cache, user_id) == {c \in cache : c.user_id = user_id}

\* db::upsert_cached_user_profile: the user's row is inserted or replaced.
upsert_cached_user_profile(cache, profile) ==
    {c \in cache : c.user_id # profile.user_id} \cup {profile}

\* The freshness test with the TTL ignored when it is positive.
CacheIsFreshAnyAge(ttl, cached, t) == ttl > 0 /\ cached # {}

\* The freshness test of get_profile_image_url_cached: the TTL is positive, a
\* row is cached and now.saturating_sub(updated_at) <= ttl.
CacheIsFresh(ttl, cached, t) ==
    /\ ttl > 0
    /\ \E c \in cached : t - c.updated_at <= ttl

\* get_profile_image_url_cached at time t, given what Helix answers if asked
\* and whether the cache write succeeds (its failure is only logged): the
\* result, whether Helix was called, and user_cache afterwards.
get_profile_image_url_cached(cache, ttl, t, user_id, helix, upsert_ok) ==
    LET cached == get_cached_user_profile(cache, user_id)
    IN IF CacheIsFresh(ttl, cached, t)
       THEN [ok |-> TRUE, url |-> (CHOOSE c \in cached : TRUE).profile_image_url,
             called |-> FALSE, user_cache |-> cache]
       ELSE IF helix.ok
       THEN [ok |-> TRUE, url |-> helix.url, called |-> TRUE,
             user_cache |->
                IF upsert_ok
                THEN upsert_cached_user_profile(cache,
                        [user_id |-> user_id, profile_image_url |-> helix.url,
                         updated_at |-> t])
                ELSE cache]
       ELSE IF cached # {}
       THEN [ok |-> TRUE, url |-> (CHOOSE c \in cached : TRUE).profile_image_url,
             called |-> TRUE, user_cache |-> cache]
       ELSE [ok |-> FALSE, url |-> "", called |-> TRUE, user_cache |-> cache]

\* Uuid::new_v4(): an id no row holds (the model takes the least one).
NewId(q) ==
    LET free == Ids \ {r.id : r \in q} IN
    CHOOSE id \in free : \A other \in free : id <= other

\* The ids a request's path can carry: those of the rows, and one id that no
\* row holds (ids are opaque, so one stands for all of them).
RequestIds(q) == {r.id : r \in q} \cup {NewId(q)}

\* ---------------------------------------------------------------- actions

\* A call of enqueue_user by a caller of the engine.
EnqueueUser(users, urls) ==
    \E u \in users, url \in urls :
        LET res == enqueue_user(queue_items, participations, now,
                                NewQueueUser(u, url), NewId(queue_items))
        IN /\ queue_items' = res.queue_items
           /\ last' = [op |-> "enqueue_user", user_id |-> u, url |-> url,
                       outcome |-> res.outcome, id |-> res.id,
                       position |-> res.position]
           /\ UNCHANGED <<now, participations, pipelineVars, target_reward_id, txVars, cacheVars, cleanupVars,
                        sessionVars>>

\* POST /api/queue/:id/delete
ApiQueueDelete(modes) ==
    \E id \in RequestIds(queue_items), mode \in modes :
        LET res == delete_item(queue_items, participations, now, id, mode) IN
        /\ Len(res.participations) > Len(participations)
              => Len(res.participations) <= MaxPart
        /\ queue_items' = res.queue_items
        /\ participations' = res.participations
        /\ last' = [op |-> "api_queue_delete", id |-> id, mode |-> mode,
                    position |-> res.position,
                    response |-> IF res.result = "Ok" THEN "NO_CONTENT"
                                 ELSE DeleteErrorToApiError(res.err)]
        /\ UNCHANGED <<now, pipelineVars, target_reward_id, txVars, cacheVars, cleanupVars,
                        sessionVars>>

\* POST /api/queue/:id/move_up.  `before` is the table as the call found it,
\* `after_opposite` whether the call before it was move_down of the same id.
ApiQueueMoveUp ==
    \E id \in RequestIds(queue_items) :
        LET res == move_up(queue_items, id) IN
        /\ queue_items' = res.queue_items
        /\ last' = [op |-> "api_queue_move_up", id |-> id,
                    position |-> res.position,
                    before |-> queue_items,
                    after_opposite |-> /\ last.op = "api_queue_move_down"
                                       /\ last.id = id,
                    response |-> IF res.result = "Ok" THEN "NO_CONTENT"
                                 ELSE MoveErrorToApiError(res.err)]
        /\ UNCHANGED <<now, participations, pipelineVars, target_reward_id, txVars, cacheVars, cleanupVars,
                        sessionVars>>

\* POST /api/queue/:id/move_down.  `before` is the table as the call found
\* it, `after_opposite` whether the call before it was move_up of the same id.
ApiQueueMoveDown ==
    \E id \in RequestIds(queue_items) :
        LET res == move_down(queue_items, id) IN
        /\ queue_items' = res.queue_items
        /\ last' = [op |-> "api_queue_move_down", id |-> id,
                    position |-> res.position,
                    before |-> queue_items,
                    after_opposite |-> /\ last.op = "api_queue_move_up"
                                       /\ last.id = id,
                    response |-> IF res.result = "Ok" THEN "NO_CONTENT"
                                 ELSE MoveErrorToApiError(res.err)]
        /\ UNCHANGED <<now, participations, pipelineVars, target_reward_id, txVars, cacheVars, cleanupVars,
                        sessionVars>>

\* A read loop that takes its next frame whatever it is doing.
NextFrameReadableAlways(handling) == TRUE

\* `while let Some(msg) = read.next().await`: the loop reads its next frame
\* only when the handling of the previous one has returned to it.
NextFrameReadable(handling) == handling = ""

\* Mutant of OtherSubscriptionType: every notification is taken for a
\* redemption.
OtherSubscriptionTypeNever(typ) == FALSE

\* `env.metadata.subscription_type.as_deref() != Some(SUB_TYPE_REDEMPTION_ADD)`
OtherSubscriptionType(typ) == typ # SUB_TYPE_REDEMPTION_ADD

\* The read loop takes a "notification" frame, one of `frames`: everything up
\* to the profile lookup.  `discard` names the `continue` that ends the
\* handling, "" if none.
NotifReceiveOf(frames) ==
    /\ pc = "read"
    /\ NextFrameReadable(in_flight)
    /\ \E frame \in frames :
        LET other_type == OtherSubscriptionType(frame.subscription_type)
            already == is_processed_message(processed_messages, frame.message_id)
            marked == ~other_type /\ ~already
            discard ==
                IF other_type THEN "other_subscription_type"
                ELSE IF already THEN "duplicate"
                ELSE IF ~frame.payload_ok THEN "bad_payload"
                ELSE IF TargetFilter(target_reward_id, frame.reward_id) # ""
                    THEN TargetFilter(target_reward_id, frame.reward_id)
                ELSE IF is_user_queued(queue_items, frame.user_id) THEN "already_queued"
                ELSE ""
        IN /\ processed_messages' =
                IF marked
                THEN mark_processed_message(processed_messages, frame.message_id, now)
                ELSE processed_messages
           /\ in_flight' = IF discard = "" THEN frame.message_id ELSE ""
           /\ stopped_msgs' =
                IF marked /\ discard # ""
                THEN stopped_msgs \cup {frame.message_id}
                ELSE stopped_msgs
           /\ last' = [op |-> "notification", message_id |-> frame.message_id,
                       subscription_type |-> frame.subscription_type,
                       user_id |-> frame.user_id, discard |-> discard]
           /\ UNCHANGED <<now, queue_items, participations, enqueued_msgs, target_reward_id, txVars, cacheVars, cleanupVars,
                        sessionVars>>

\* The read loop takes a redemption notification.
NotifReceive == NotifReceiveOf(Frames)

\* The read loop takes a notification of any subscription type.
NotifReceiveAnyType == NotifReceiveOf(Frames \cup OtherTypeFrames)

\* The pipeline once the profile lookup has returned: on Err it warns and
\* goes on to the next frame, on Ok it calls enqueue_user.
Admit(frame, profile) ==
    /\ in_flight' = ""
    /\ IF ~profile.ok
       THEN /\ last' = [op |-> "admit", message_id |-> frame.message_id,
                        user_id |-> frame.user_id, outcome |-> "profile_failed",
                        id |-> 0, position |-> -1]
            /\ stopped_msgs' = stopped_msgs \cup {frame.message_id}
            /\ UNCHANGED <<queue_items, enqueued_msgs>>
       ELSE LET res == enqueue_user(queue_items, participations, now,
                                    NewQueueUser(frame.user_id, profile.url),
                                    NewId(queue_items))
            IN /\ queue_items' = res.queue_items
               /\ enqueued_msgs' =
                    IF res.outcome = "Added"
                    THEN enqueued_msgs \cup {frame.message_id}
                    ELSE enqueued_msgs
               /\ stopped_msgs' =
                    IF res.outcome = "Added"
                    THEN stopped_msgs
                    ELSE stopped_msgs \cup {frame.message_id}
               /\ last' = [op |-> "admit", message_id |-> frame.message_id,
                           user_id |-> frame.user_id, outcome |-> res.outcome,
                           id |-> res.id, position |-> res.position]
    /\ UNCHANGED <<now, participations, processed_messages, target_reward_id, txVars,
                    sessionVars, cleanupVars>>

\* The rest of the notification's handling, whatever the profile lookup
\* returns.
NotifAdmit ==
    /\ pc = "read"
    /\ in_flight # ""
    /\ \E frame \in Frames, profile \in ProfileResults :
        /\ frame.message_id = in_flight
        /\ Admit(frame, profile)
    /\ UNCHANGED cacheVars

\* The rest of the notification's handling, with the profile lookup computed
\* from the cache, the clock and Helix's answer.
NotifAdmitCached ==
    /\ pc = "read"
    /\ in_flight # ""
    /\ \E frame \in Frames, helix \in HelixUserResults, upsert_ok \in BOOLEAN :
        /\ frame.message_id = in_flight
        /\ LET res == get_profile_image_url_cached(user_cache, user_cache_ttl_secs,
                          now, frame.user_id, helix, upsert_ok)
           IN /\ Admit(frame, [ok |-> res.ok, url |-> res.url])
              /\ user_cache' = res.user_cache
              /\ profile_last' =
                    [message_id |-> frame.message_id, user_id |-> frame.user_id,
                     called |-> res.called,
                     helix |-> IF res.called THEN helix
                               ELSE [ok |-> FALSE, url |-> ""],
                     cache_written |-> res.called /\ helix.ok /\ upsert_ok,
                     ok |-> res.ok, url |-> res.url]
    /\ UNCHANGED user_cache_ttl_secs

\* One pass of main's retention task over the ledger.
Sweep ==
    LET ttl == processed_message_ttl_secs
        cutoff == now - ttl
    IN /\ processed_messages' = cleanup_processed_messages(processed_messages, cutoff)
       /\ last' = [op |-> "sweep"]
       /\ UNCHANGED <<now, queue_items, participations, in_flight, enqueued_msgs, stopped_msgs, target_reward_id, txVars, cacheVars, cleanupVars,
                        sessionVars>>

\* The wall clock advances by one second.
Tick ==
    /\ now < MaxTime
    /\ now' = now + 1
    /\ last' = [op |-> "tick"]
    /\ UNCHANGED <<queue_items, participations, pipelineVars, target_reward_id, txVars, cacheVars, cleanupVars,
                        sessionVars>>

\* ------------------------------------------------------------ token store

\* The margin of the expiry checks: `expires_at <= util::now_epoch() + 60`.
EXPIRY_MARGIN_SECS == 60

\* TokenResponse.expires_in as the authorization server issues it (lifetimes
\* beyond the margin; the shortest is inside the margin one second later).
ExpiresIn == {61, 62}

\* db::get_oauth_token returning None.
NoToken == [present |-> FALSE, expires_at |-> 0]

\* The OAuthToken that exchange_code_for_token / refresh_access_token build:
\* expires_at = util::now_epoch() + token.expires_in.
NewToken(time, expires_in) == [present |-> TRUE, expires_at |-> time + expires_in]

\* Mutant of TokenNearExpiry: the check without its margin.
TokenNearExpiryNoMargin(t, time) == t.expires_at <= time

\* `token.expires_at <= util::now_epoch() + 60`
TokenNearExpiry(t, time) == t.expires_at <= time + EXPIRY_MARGIN_SECS

\* What refresh_access_token returns: Ok(token) or Err.
RefreshResults ==
    {[ok |-> TRUE, expires_in |-> e] : e \in ExpiresIn}
        \cup {[ok |-> FALSE, expires_in |-> 0]}

\* `?` on the anyhow::Error of refresh_access_token in get_valid_access_token:
\* ApiError::Internal(#[from] anyhow::Error).
RefreshErrorToApiError(err) == "Internal"

\* GET /auth/callback with a valid code and state: the token is stored and,
\* when helix_get_self answers, so is the broadcaster id.
AuthCallback ==
    \E e \in ExpiresIn, self_ok \in BOOLEAN :
        /\ oauth_token' = NewToken(now, e)
        /\ broadcaster_id' = IF self_ok THEN "b1" ELSE broadcaster_id
        /\ last' = [op |-> "auth_callback"]
        /\ UNCHANGED <<now, queue_items, participations, pipelineVars,
                       target_reward_id, txVars, cacheVars, cleanupVars, pc, need_subscribe, ws_url, token,
                       loop_exit, resub_pending, ever_welcomed, revoked_pending, since_create>>

\* POST /auth/logout
AuthLogout ==
    /\ oauth_token' = NoToken
    /\ last' = [op |-> "auth_logout"]
    /\ UNCHANGED <<now, queue_items, participations, pipelineVars,
                   target_reward_id, txVars, cacheVars, cleanupVars, pc, need_subscribe, ws_url, token,
                   broadcaster_id, loop_exit, resub_pending, ever_welcomed,
                   revoked_pending, since_create>>

\* get_valid_access_token, as api_rewards calls it before its upstream calls.
\* `cause` names why no token was returned, `used_expires_at` the expiry of
\* the token handed to the upstream call.
GetValidAccessToken ==
    \E r \in RefreshResults :
        LET t == oauth_token
            refresh == t.present /\ TokenNearExpiry(t, now)
            cause == IF ~t.present THEN "missing"
                     ELSE IF refresh /\ ~r.ok THEN "refresh_failed"
                     ELSE ""
            new_t == IF refresh /\ r.ok THEN NewToken(now, r.expires_in) ELSE t
        IN /\ oauth_token' = IF cause = "" THEN new_t ELSE oauth_token
           /\ last' = [op |-> "get_valid_access_token", cause |-> cause,
                       response |-> IF cause = "missing" THEN "Unauthorized"
                                    ELSE IF cause = "refresh_failed"
                                    THEN RefreshErrorToApiError("refresh")
                                    ELSE "Ok",
                       used_expires_at |-> IF cause = "" THEN new_t.expires_at ELSE 0]
           /\ UNCHANGED <<now, queue_items, participations, pipelineVars,
                          target_reward_id, txVars, cacheVars, cleanupVars, pc, need_subscribe, ws_url, token,
                          broadcaster_id, loop_exit, resub_pending, ever_welcomed,
                   revoked_pending, since_create>>

\* ----------------------------------------------------------- session task

\* const EVENTSUB_WS_URL
EVENTSUB_WS_URL == "wss://eventsub.wss.twitch.tv/ws"

\* The session ids a session_welcome payload can carry.
SessionIds == {"s1", "s2"}

\* session_reconnect frames: whether the payload parses as
\* SessionWelcomePayload, and its session.reconnect_url ("" for None).
ReconnectFrames ==
    { [payload_ok |-> FALSE, reconnect_url |-> ""],
      [payload_ok |-> TRUE, reconnect_url |-> ""],
      [payload_ok |-> TRUE, reconnect_url |-> "not a url"],
      [payload_ok |-> TRUE, reconnect_url |-> "wss://reconnect"] }

\* Url::parse succeeds on the string.
UrlParses(url) == url \in {EVENTSUB_WS_URL, "wss://reconnect"}

\* Mutant of SubscribeOnWelcome: a subscription on every welcome.
SubscribeOnWelcomeAlways(need) == TRUE

\* `if need_subscribe { create_redemption_subscription(..) }`
SubscribeOnWelcome(need) == need

\* Mutant of NeedSubscribeAfterCreate: the flag is left set after a creation.
NeedSubscribeAfterCreateKept(need, attempted, create_ok) == need

\* Mutant of NeedSubscribeAfterCreate: the flag is cleared whatever the result.
NeedSubscribeAfterCreateCleared(need, attempted, create_ok) ==
    IF attempted THEN FALSE ELSE need

\* need_subscribe after the welcome's subscription attempt: cleared on Ok only.
NeedSubscribeAfterCreate(need, attempted, create_ok) ==
    IF attempted /\ create_ok THEN FALSE ELSE need

\* Mutant of NeedSubscribeAfterExit: the flag is left as it was.
NeedSubscribeAfterExitKept(need, received_reconnect) == need

\* `if !received_reconnect { need_subscribe = true; .. }` after the read loop.
NeedSubscribeAfterExit(need, received_reconnect) ==
    IF ~received_reconnect THEN TRUE ELSE need

\* An exit from the read loop that keeps the endpoint it was connected to.
WsUrlAfterExitKept(url, received_reconnect) == url

\* `if !received_reconnect { ..; ws_url = Url::parse(EVENTSUB_WS_URL)?; }`
WsUrlAfterExit(url, received_reconnect) ==
    IF ~received_reconnect THEN EVENTSUB_WS_URL ELSE url

\* Mutant of NeedSubscribeOnRevocation: the frame is ignored.
NeedSubscribeOnRevocationIgnored(need) == need

\* "revocation" => need_subscribe = true
NeedSubscribeOnRevocation(need) == TRUE

\* One iteration of the outer loop up to the read loop: the stored token is
\* read and refreshed when near expiry, the broadcaster id is resolved, the
\* websocket is connected.  `outcome` names the `continue` (or `?`) that ends
\* the iteration early; `refreshed` whether a refreshed token was stored,
\* `connect_attempted` whether connect_async was called, `url` with which URL.
SessionIterate ==
    /\ pc = "outer"
    /\ \E db_ok \in BOOLEAN, r \in RefreshResults, self_ok \in BOOLEAN,
          connect_ok \in BOOLEAN :
        LET stored == oauth_token
            refresh == stored.present /\ TokenNearExpiry(stored, now)
            outcome ==
                IF ~db_ok THEN "storage_error"
                ELSE IF ~stored.present THEN "no_token"
                ELSE IF refresh /\ ~r.ok THEN "refresh_failed"
                ELSE IF broadcaster_id = "" /\ ~self_ok THEN "identity_failed"
                ELSE IF ~connect_ok THEN "connect_failed"
                ELSE "connected"
            refreshed == db_ok /\ refresh /\ r.ok
            tok == IF refreshed THEN NewToken(now, r.expires_in) ELSE stored
            connect_attempted == outcome \in {"connect_failed", "connected"}
        IN /\ oauth_token' = IF refreshed THEN tok ELSE oauth_token
           /\ broadcaster_id' = IF connect_attempted THEN "b1" ELSE broadcaster_id
           /\ token' = IF outcome = "connected" THEN tok ELSE NoToken
           /\ pc' = IF outcome = "connected" THEN "read"
                    ELSE IF outcome = "storage_error" THEN "exited"
                    ELSE "outer"
           /\ last' = [op |-> "iterate", outcome |-> outcome,
                       refreshed |-> refreshed,
                       connect_attempted |-> connect_attempted, url |-> ws_url,
                       after_exit |-> loop_exit]
           /\ UNCHANGED <<now, queue_items, participations, pipelineVars,
                          target_reward_id, txVars, cacheVars, cleanupVars, need_subscribe, ws_url, loop_exit,
                          resub_pending, ever_welcomed,
                   revoked_pending, since_create>>

\* The read loop takes a "session_welcome" frame.  `subscribe_calls` counts
\* the calls of create_redemption_subscription, `subscribed_session` is the
\* session id passed to it, `token_expires_at` the expiry of the token passed;
\* `need`, `after_exit`, `pending`, `revoked` and `first` are need_subscribe
\* and the history as the frame found them.
SessionWelcomeFrame ==
    /\ pc = "read"
    /\ NextFrameReadable(in_flight)
    /\ \E payload_ok \in BOOLEAN, sid \in SessionIds, create_ok \in BOOLEAN :
        LET attempted == payload_ok /\ SubscribeOnWelcome(need_subscribe)
            created == attempted /\ create_ok
        IN /\ pc' = IF payload_ok THEN "read" ELSE "exited"
           /\ need_subscribe' =
                IF payload_ok
                THEN NeedSubscribeAfterCreate(need_subscribe, attempted, create_ok)
                ELSE need_subscribe
           /\ token' = IF payload_ok THEN token ELSE NoToken
           /\ loop_exit' = IF payload_ok THEN "none" ELSE loop_exit
           /\ resub_pending' = IF payload_ok THEN FALSE ELSE resub_pending
           /\ ever_welcomed' = IF payload_ok THEN TRUE ELSE ever_welcomed
           /\ revoked_pending' = IF payload_ok THEN FALSE ELSE revoked_pending
           /\ since_create' = IF created THEN "quiet" ELSE since_create
           /\ last' = [op |-> "welcome", parsed |-> payload_ok,
                       session_id |-> IF payload_ok THEN sid ELSE "",
                       subscribe_calls |-> IF attempted THEN 1 ELSE 0,
                       subscribed_session |-> IF attempted THEN sid ELSE "",
                       created |-> created, cleanup_spawned |-> created,
                       token_expires_at |-> IF attempted THEN token.expires_at ELSE 0,
                       need |-> need_subscribe, after_exit |-> loop_exit,
                       pending |-> resub_pending, revoked |-> revoked_pending,
                       first |-> ~ever_welcomed, since |-> since_create]
           /\ UNCHANGED <<now, queue_items, participations, pipelineVars,
                          target_reward_id, txVars, cacheVars, ws_url, oauth_token, broadcaster_id>>

\* The read loop takes a "session_welcome" frame; the cleanup task it may
\* spawn is left out.
SessionWelcome == SessionWelcomeFrame /\ UNCHANGED cleanupVars

\* The read loop takes a "revocation" frame.
SessionRevocation ==
    /\ pc = "read"
    /\ NextFrameReadable(in_flight)
    /\ need_subscribe' = NeedSubscribeOnRevocation(need_subscribe)
    /\ revoked_pending' = TRUE
    /\ since_create' = IF since_create = "never" THEN "never" ELSE "event"
    /\ last' = [op |-> "revocation"]
    /\ UNCHANGED <<now, queue_items, participations, pipelineVars,
                   target_reward_id, txVars, cacheVars, cleanupVars, pc, ws_url, oauth_token, token,
                   broadcaster_id, loop_exit, resub_pending, ever_welcomed>>

\* The read loop takes a "session_reconnect" frame; when the frame breaks the
\* loop, the code after the loop and the 2 s sleep are part of the step.
\* `ended` names how the handling ended.
SessionReconnect ==
    /\ pc = "read"
    /\ NextFrameReadable(in_flight)
    /\ \E frame \in ReconnectFrames :
        LET ended == IF ~frame.payload_ok THEN "bad_payload"
                     ELSE IF frame.reconnect_url = "" THEN "no_reconnect_url"
                     ELSE IF ~UrlParses(frame.reconnect_url) THEN "bad_url"
                     ELSE "reconnect"
            received_reconnect == ended = "reconnect"
            returned == ended \in {"bad_payload", "bad_url"}
            url == IF received_reconnect THEN frame.reconnect_url ELSE ws_url
        IN /\ pc' = IF returned THEN "exited" ELSE "outer"
           /\ need_subscribe' =
                IF returned THEN need_subscribe
                ELSE NeedSubscribeAfterExit(need_subscribe, received_reconnect)
           /\ ws_url' = IF returned THEN ws_url
                        ELSE WsUrlAfterExit(url, received_reconnect)
           /\ token' = NoToken
           /\ loop_exit' = IF returned THEN loop_exit
                           ELSE IF received_reconnect THEN "session_reconnect"
                           ELSE "disconnect"
           /\ resub_pending' = IF returned \/ received_reconnect
                               THEN resub_pending ELSE TRUE
           /\ since_create' = IF returned \/ received_reconnect
                                    \/ since_create = "never"
                              THEN since_create ELSE "event"
           /\ last' = [op |-> "session_reconnect", ended |-> ended,
                       reconnect_url |-> frame.reconnect_url]
           /\ UNCHANGED <<now, queue_items, participations, pipelineVars,
                          target_reward_id, txVars, cacheVars, cleanupVars, oauth_token, broadcaster_id,
                          ever_welcomed,
                   revoked_pending>>

\* The read loop takes a frame without effect: session_keepalive, an unknown
\* message type, text that is not a WsEnvelope, a ping or a binary message.
SessionOtherFrame ==
    /\ pc = "read"
    /\ NextFrameReadable(in_flight)
    /\ \E kind \in {"session_keepalive", "unhandled", "bad_json", "ping"} :
        last' = [op |-> "other_frame", kind |-> kind]
    /\ UNCHANGED <<now, queue_items, participations, pipelineVars,
                   target_reward_id, txVars, cacheVars, cleanupVars, sessionVars>>

\* The read loop ends without session_reconnect: a Close message, a read
\* error or the end of the stream; then the code after the loop.
SessionDisconnect ==
    /\ pc = "read"
    /\ NextFrameReadable(in_flight)
    /\ \E cause \in {"close", "read_error", "end_of_stream"} :
        last' = [op |-> "disconnect", cause |-> cause]
    /\ pc' = "outer"
    /\ need_subscribe' = NeedSubscribeAfterExit(need_subscribe, FALSE)
    /\ ws_url' = WsUrlAfterExit(ws_url, FALSE)
    /\ token' = NoToken
    /\ loop_exit' = "disconnect"
    /\ resub_pending' = TRUE
    /\ since_create' = IF since_create = "never" THEN "never" ELSE "event"
    /\ UNCHANGED <<now, queue_items, participations, pipelineVars,
                   target_reward_id, txVars, cacheVars, cleanupVars, oauth_token, broadcaster_id, ever_welcomed,
                   revoked_pending>>

\* The subscriptions Helix holds for the client when the process starts: a
\* stale one of the own broadcaster, the live one of another running client,
\* a webhook subscription, one of another broadcaster and one of another type.
PreexistingSubs ==
    { [id |-> "w1", typ |-> SUB_TYPE_REDEMPTION_ADD, method |-> "websocket",
       broadcaster_user_id |-> "b1", status |-> "websocket_disconnected"],
      [id |-> "w2", typ |-> SUB_TYPE_REDEMPTION_ADD, method |-> "websocket",
       broadcaster_user_id |-> "b1", status |-> "enabled"],
      [id |-> "h1", typ |-> SUB_TYPE_REDEMPTION_ADD, method |-> "webhook",
       broadcaster_user_id |-> "b1", status |-> "notification_failures_exceeded"],
      [id |-> "o1", typ |-> SUB_TYPE_REDEMPTION_ADD, method |-> "websocket",
       broadcaster_user_id |-> "b2", status |-> "websocket_disconnected"],
      [id |-> "t1", typ |-> "channel.follow", method |-> "websocket",
       broadcaster_user_id |-> "b1", status |-> "websocket_disconnected"] }

\* The most cleanup tasks running at once.
MaxCleanup == 1

\* helix_list_eventsub_subscriptions_by_type: the subscriptions of the type.
helix_list_eventsub_subscriptions_by_type(subs, typ) == {x \in subs : x.typ = typ}

\* helix_delete_eventsub_subscription (a 404 for an id already gone is Ok).
helix_delete_eventsub_subscription(subs, id) == {x \in subs : x.id # id}

\* The test of the cleanup loop with the status left out.
StaleSubscriptionAnyStatus(x, own_broadcaster_id) ==
    /\ x.typ = SUB_TYPE_REDEMPTION_ADD
    /\ x.method = "websocket"
    /\ x.broadcaster_user_id = own_broadcaster_id

\* The subscriptions the loop of
\* cleanup_stale_websocket_redemption_subscriptions does not skip.
StaleSubscription(x, own_broadcaster_id) ==
    /\ x.typ = SUB_TYPE_REDEMPTION_ADD
    /\ x.method = "websocket"
    /\ x.broadcaster_user_id = own_broadcaster_id
    /\ x.status # "enabled"

\* A sequence without its i-th element.
RemoveAt(seq, i) == [j \in 1..(Len(seq) - 1) |-> IF j < i THEN seq[j] ELSE seq[j + 1]]

\* The read loop takes a "session_welcome" frame and, after a successful
\* create_redemption_subscription, spawns the cleanup task with clones of the
\* token and of the broadcaster id.
SessionWelcomeSpawn ==
    /\ SessionWelcomeFrame
    /\ last'.cleanup_spawned => Len(cleanups) < MaxCleanup
    /\ cleanups' =
          IF last'.cleanup_spawned
          THEN Append(cleanups, [pc |-> "list", broadcaster_id |-> broadcaster_id,
                                 listed |-> {}])
          ELSE cleanups
    /\ UNCHANGED upstream_subs

\* Upstream: the session of a live subscription goes away.
UpstreamDisconnect ==
    /\ \E x \in upstream_subs :
        /\ x.status = "enabled"
        /\ upstream_subs' = (upstream_subs \ {x})
                \cup {[x EXCEPT !.status = "websocket_disconnected"]}
    /\ last' = [op |-> "upstream_disconnect"]
    /\ UNCHANGED <<now, queue_items, participations, pipelineVars,
                   target_reward_id, sessionVars, txVars, cacheVars, cleanups>>

\* A cleanup task's first await: the list request.  On Err the task logs
\* and ends.
CleanupList ==
    /\ \E i \in 1..Len(cleanups), list_ok \in BOOLEAN :
        /\ cleanups[i].pc = "list"
        /\ cleanups' =
              IF list_ok
              THEN [cleanups EXCEPT ![i].pc = "delete",
                        ![i].listed = helix_list_eventsub_subscriptions_by_type(
                                          upstream_subs, SUB_TYPE_REDEMPTION_ADD)]
              ELSE RemoveAt(cleanups, i)
        /\ last' = [op |-> "cleanup_list", result |-> IF list_ok THEN "" ELSE "Err"]
    /\ UNCHANGED <<now, queue_items, participations, pipelineVars,
                   target_reward_id, sessionVars, txVars, cacheVars, upstream_subs>>

\* A cleanup task's loop up to its next await: it skips the subscriptions
\* that are not stale and requests the deletion of the next stale one; on Err
\* it logs and ends, and it ends with Ok when none is left.
CleanupDelete ==
    /\ \E i \in 1..Len(cleanups) :
        LET t == cleanups[i]
            stale == {x \in t.listed : StaleSubscription(x, t.broadcaster_id)}
        IN /\ t.pc = "delete"
           /\ IF stale = {}
              THEN /\ cleanups' = RemoveAt(cleanups, i)
                   /\ last' = [op |-> "cleanup_delete", deleted |-> "",
                               result |-> "Ok"]
                   /\ UNCHANGED upstream_subs
              ELSE \E x \in stale, delete_ok \in BOOLEAN :
                   /\ upstream_subs' =
                        IF delete_ok
                        THEN helix_delete_eventsub_subscription(upstream_subs, x.id)
                        ELSE upstream_subs
                   /\ cleanups' =
                        IF delete_ok
                        THEN [cleanups EXCEPT ![i].listed = t.listed \ {x}]
                        ELSE RemoveAt(cleanups, i)
                   /\ last' = [op |-> "cleanup_delete",
                               deleted |-> IF delete_ok THEN x.id ELSE "",
                               result |-> IF delete_ok THEN "" ELSE "Err"]
    /\ UNCHANGED <<now, queue_items, participations, pipelineVars,
                   target_reward_id, sessionVars, txVars, cacheVars>>

\* ------------------------------------------ transactions, by statement

\* The tasks that call the engine concurrently: the session task
\* (enqueue_user) and a request handler (delete_item, move_up, move_down).
TxClients == {"session", "web"}

\* No call.
NoCall == [fn |-> "", user_id |-> "", id |-> 0, mode |-> ""]

\* No open transaction.
NoTx ==
    [pc |-> "idle", call |-> NoCall, plan |-> <<>>, done |-> 0, stale |-> FALSE,
     before |-> <<>>]

\* The calls a client can make on the tables it finds (the uuid of an
\* enqueue_user is drawn before its INSERT).
CallsOf(c, q) ==
    IF c = "session"
    THEN {[fn |-> "enqueue_user", user_id |-> u, id |-> NewId(q), mode |-> ""]
            : u \in Users}
    ELSE {[fn |-> f, user_id |-> "", id |-> i, mode |-> ""]
            : f \in {"move_up", "move_down"}, i \in RequestIds(q)}
         \cup {[fn |-> "delete_item", user_id |-> "", id |-> i, mode |-> m]
            : i \in RequestIds(q), m \in {"Completed", "Canceled"}}

\* The tables after the whole call, run alone on tables q, parts.
CallResult(call, q, parts, t) ==
    IF call.fn = "enqueue_user"
    THEN [queue_items |->
            enqueue_user(q, parts, t, NewQueueUser(call.user_id, "img1"),
                         call.id).queue_items,
          participations |-> parts]
    ELSE IF call.fn = "delete_item"
    THEN [queue_items |-> delete_item(q, parts, t, call.id, call.mode).queue_items,
          participations |->
            delete_item(q, parts, t, call.id, call.mode).participations]
    ELSE [queue_items |->
            move_by(q, call.id, IF call.fn = "move_up" THEN -1 ELSE 1).queue_items,
          participations |-> parts]

\* UPDATE queue_items SET position = ?1 WHERE id = ?2 (one statement).
UpdatePosition(q, id, pos) ==
    {IF r.id = id THEN [r EXCEPT !.position = pos] ELSE r : r \in q}

\* The tables inside the transaction after each write statement of the call,
\* as decided from the tables q, parts that its SELECTs read; <<>> when the
\* call rolls back without writing (AlreadyQueued, not found, nothing to swap).
Statements(call, q, parts, t) ==
    LET db(qq, pp) == [queue_items |-> qq, participations |-> pp]
        found == {r \in q : r.id = call.id}
        item == CHOOSE r \in found : TRUE
    IN IF call.fn = "enqueue_user"
       THEN IF ExistingEntry(q, call.user_id) # {} THEN <<>>
            ELSE LET res == enqueue_user(q, parts, t,
                                         NewQueueUser(call.user_id, "img1"), call.id)
                 IN << db(ShiftDown(q, res.position), parts),
                       db(res.queue_items, parts) >>
       ELSE IF found = {} THEN <<>>
       ELSE IF call.fn = "delete_item"
       THEN LET res == delete_item(q, parts, t, call.id, call.mode) IN
            << db(q \ found, parts), db(res.queue_items, parts) >>
                \o (IF call.mode = "Completed"
                    THEN << db(res.queue_items, res.participations) >>
                    ELSE <<>>)
       ELSE LET res == move_by(q, call.id, IF call.fn = "move_up" THEN -1 ELSE 1) IN
            IF ~res.moved THEN <<>>
            ELSE << db(UpdatePosition(q, call.id,
                                      item.position
                                        + (IF call.fn = "move_up" THEN -1 ELSE 1)),
                       parts),
                    db(res.queue_items, parts) >>

\* Mutant of WriteConflict: only the write lock is respected, as when the
\* SELECTs that decide the write ran before the transaction was opened.
WriteConflictLockOnly(stale, lock, c) == lock \notin {"", c}

\* The first write of a transaction opened by pool.begin() (BEGIN, deferred)
\* fails with "database is locked" when another connection holds the write
\* lock past the busy timeout or has committed since this transaction's first
\* SELECT: SQLite never lets a transaction write on top of a snapshot that is
\* no longer current.
WriteConflict(stale, lock, c) == stale \/ lock \notin {"", c}

\* Mutant of CommittedAfterStatement: the statement runs on the pool and is
\* committed by itself.
CommittedAfterStatementOnPool(committed, work) == work

\* What other connections can read after a write statement executed on
\* `&mut *tx`: the committed tables, until tx.commit().
CommittedAfterStatement(committed, work) == committed

\* pool.begin() and the SELECTs of a call: they read one snapshot of the
\* tables (kept in `before`) and decide the writes.  A call that writes
\* nothing ends here.
TxRead(c) ==
    /\ txs[c].pc = "idle"
    /\ c = "session" => (pc = "read" /\ in_flight = "")
    /\ \E call \in CallsOf(c, queue_items) :
        LET plan == Statements(call, queue_items, participations, now) IN
        /\ (call.fn = "delete_item" /\ call.mode = "Completed")
              => Len(participations) < MaxPart
        /\ txs' = IF plan = <<>> THEN txs
                  ELSE [txs EXCEPT ![c] = [pc |-> "write", call |-> call,
                                           plan |-> plan, done |-> 0,
                                           stale |-> FALSE,
                                           before |-> <<queue_items, participations>>]]
        /\ last' = [op |-> IF plan = <<>> THEN "tx_done" ELSE "tx_read",
                    client |-> c, fn |-> call.fn, committed |-> FALSE,
                    storage_error |-> FALSE, done |-> 0]
    /\ UNCHANGED <<now, queue_items, participations, pipelineVars,
                   target_reward_id, sessionVars, db_lock, cacheVars, cleanupVars>>

\* The `?` on a failed statement or commit: the call returns Err and the
\* dropped transaction is rolled back, which discards its writes and
\* releases the write lock if it held it.
TxRollback(c) ==
    /\ txs' = [txs EXCEPT ![c] = NoTx]
    /\ db_lock' = IF db_lock = c THEN "" ELSE db_lock
    /\ last' = [op |-> "tx_done", client |-> c, fn |-> txs[c].call.fn,
                committed |-> FALSE, storage_error |-> TRUE,
                done |-> txs[c].done]
    /\ UNCHANGED <<queue_items, participations>>

\* The next write statement of an open transaction.  It fails with "database
\* is locked" on a write conflict and may fail for any other storage error.
TxWrite(c) ==
    /\ txs[c].pc = "write"
    /\ \E stmt_ok \in BOOLEAN :
       LET t == txs[c]
           conflict == WriteConflict(t.stale, db_lock, c)
           work == t.plan[t.done + 1]
           seen == CommittedAfterStatement(
                       [queue_items |-> queue_items,
                        participations |-> participations], work)
       IN IF conflict \/ ~stmt_ok
          THEN TxRollback(c)
          ELSE /\ txs' = [txs EXCEPT ![c].done = t.done + 1,
                                     ![c].pc = IF t.done + 1 = Len(t.plan)
                                               THEN "commit" ELSE "write"]
               /\ db_lock' = c
               /\ queue_items' = seen.queue_items
               /\ participations' = seen.participations
               /\ last' = [op |-> "tx_write", client |-> c, fn |-> t.call.fn,
                           committed |-> FALSE, storage_error |-> FALSE,
                           done |-> t.done + 1]
    /\ UNCHANGED <<now, pipelineVars, target_reward_id, sessionVars, cacheVars, cleanupVars>>

\* tx.commit(): the transaction's writes become the tables, the write lock is
\* released, and the snapshot of any other open transaction is overtaken.  A
\* commit that fails rolls the transaction back.
TxCommit(c) ==
    /\ txs[c].pc = "commit"
    /\ \E commit_ok \in BOOLEAN :
        IF ~commit_ok
        THEN TxRollback(c)
        ELSE LET t == txs[c] IN
             /\ queue_items' = t.plan[Len(t.plan)].queue_items
             /\ participations' = t.plan[Len(t.plan)].participations
             /\ last' = [op |-> "tx_commit", client |-> c, fn |-> t.call.fn,
                         committed |-> TRUE, storage_error |-> FALSE,
                         done |-> t.done]
             /\ db_lock' = ""
             /\ txs' = [d \in TxClients |->
                         IF d = c THEN NoTx
                         ELSE IF txs[d].pc = "idle" THEN txs[d]
                         ELSE [txs[d] EXCEPT !.stale = TRUE]]
    /\ UNCHANGED <<now, pipelineVars, target_reward_id, sessionVars, cacheVars, cleanupVars>>

\* list_queue at time t: the rows in ascending position order, each with the
\* user's count of participations since the start of the window.
list_queue(q, parts, t) ==
    LET window_start == t - participation_window_secs
        rows == OrderByPosition(q)
    IN [i \in 1..Len(rows) |->
            [id |-> rows[i].id, user_id |-> rows[i].user_id,
             profile_image_url |-> rows[i].profile_image_url,
             position |-> rows[i].position,
             recent_participation_count |->
                count_participations(parts, rows[i].user_id, window_start)]]

\* GET /api/queue (list_queue) and the pipeline's is_user_queued, on the pool
\* and outside any transaction: `observed` is the rows the SELECT reads,
\* `result` what list_queue returns, `queued` the users is_user_queued holds
\* for.
ListQueue ==
    /\ last' = [op |-> "list_queue", observed |-> queue_items,
                result |-> list_queue(queue_items, participations, now),
                queued |-> {u \in Users : is_user_queued(queue_items, u)}]
    /\ UNCHANGED <<now, queue_items, participations, pipelineVars,
                   target_reward_id, sessionVars, txVars, cacheVars, cleanupVars>>

\* run_eventsub_loop before its outer loop, and the token store of a fresh
\* database.
InitSession ==
    /\ pc = "outer"
    /\ need_subscribe = TRUE
    /\ ws_url = EVENTSUB_WS_URL
    /\ oauth_token = NoToken
    /\ token = NoToken
    /\ broadcaster_id = ""
    /\ loop_exit = "none"
    /\ resub_pending = FALSE
    /\ ever_welcomed = FALSE
    /\ revoked_pending = FALSE
    /\ since_create = "never"
    /\ txs = [c \in TxClients |-> NoTx]
    /\ db_lock = ""
    /\ user_cache = {}
    /\ profile_last = NoProfileCall
    /\ upstream_subs = PreexistingSubs
    /\ cleanups = <<>>

\* After init_pool on an empty database, before any task has run.
Init ==
    /\ now = 0
    /\ queue_items = {}
    /\ participations = <<>>
    /\ processed_messages = {}
    /\ in_flight = ""
    /\ enqueued_msgs = {}
    /\ stopped_msgs = {}
    /\ last = [op |-> "init"]
    /\ target_reward_id = "reward1"
    /\ user_cache_ttl_secs = 1
    /\ InitSession

\* The queue engine under its callers' operations.
Next ==
    \/ EnqueueUser(Users, EngineUrls)
    \/ ApiQueueDelete({"Completed", "Canceled"})
    \/ ApiQueueMoveUp
    \/ ApiQueueMoveDown
    \/ Tick

Spec == Init /\ [][Next]_vars

\* The program: the session task's admission pipeline, the request handlers
\* and the retention task, with enqueue_user also open to other callers.
NextApp ==
    \/ NotifReceive
    \/ NotifAdmit
    \/ EnqueueUser(AppUsers, Urls)
    \/ ApiQueueDelete({"Canceled"})
    \/ ApiQueueMoveUp
    \/ ApiQueueMoveDown
    \/ Sweep
    \/ Tick

\* An empty database once the session task has connected: the authorization
\* callback has stored a token and the broadcaster id, the first iteration of
\* the outer loop has read them and entered the read loop.
InitConnected ==
    /\ now = 0
    /\ queue_items = {}
    /\ participations = <<>>
    /\ processed_messages = {}
    /\ in_flight = ""
    /\ enqueued_msgs = {}
    /\ stopped_msgs = {}
    /\ last = [op |-> "init"]
    /\ pc = "read"
    /\ need_subscribe = TRUE
    /\ ws_url = EVENTSUB_WS_URL
    /\ oauth_token = NewToken(0, 62)
    /\ token = NewToken(0, 62)
    /\ broadcaster_id = "b1"
    /\ loop_exit = "none"
    /\ resub_pending = FALSE
    /\ ever_welcomed = FALSE
    /\ revoked_pending = FALSE
    /\ since_create = "never"
    /\ txs = [c \in TxClients |-> NoTx]
    /\ db_lock = ""
    /\ user_cache = {}
    /\ profile_last = NoProfileCall
    /\ upstream_subs = PreexistingSubs
    /\ cleanups = <<>>

InitApp ==
    /\ InitConnected
    /\ target_reward_id = "reward1"
    /\ user_cache_ttl_secs = 1

SpecApp == InitApp /\ [][NextApp]_vars

\* The admission pipeline under every configuration of the target reward,
\* with the handler and the task that undo its effects.
InitFilter ==
    /\ InitConnected
    /\ target_reward_id \in TargetRewardIds
    /\ user_cache_ttl_secs = 1

NextFilter ==
    \/ NotifReceive
    \/ NotifAdmit
    \/ ApiQueueDelete({"Canceled"})
    \/ Sweep
    \/ Tick

SpecFilter == InitFilter /\ [][NextFilter]_vars

\* The admission pipeline with its profile cache, for a cache TTL of zero and
\* a positive one: redeliveries after the retention sweep and the operator's
\* removals let one participant be looked up again as the cache ages.
UserCacheTtls == {0, 1}

InitProfile ==
    /\ InitConnected
    /\ target_reward_id = "reward1"
    /\ user_cache_ttl_secs \in UserCacheTtls

NextProfile ==
    \/ NotifReceive
    \/ NotifAdmitCached
    \/ ApiQueueDelete({"Canceled"})
    \/ Sweep
    \/ Tick

SpecProfile == InitProfile /\ [][NextProfile]_vars

\* The clock advances by one second while every participation record stays
\* inside the lookback window.
TickInWindow ==
    /\ Tick
    /\ \A i \in 1..Len(participations) :
          participations[i].completed_at >= now' - participation_window_secs

\* The engine under enqueue_user and delete_item alone, no record leaving the
\* window.
NextFair ==
    \/ EnqueueUser(Users, EngineUrls)
    \/ ApiQueueDelete({"Completed", "Canceled"})
    \/ TickInWindow

SpecFair == Init /\ [][NextFair]_vars

\* The whole core against one database: the admission pipeline, every
\* request handler (completing and cancelling removals, moves, the queue
\* listing), the retention task and the clock.
NextCore ==
    \/ NotifReceive
    \/ NotifAdmit
    \/ ApiQueueDelete({"Completed", "Canceled"})
    \/ ApiQueueMoveUp
    \/ ApiQueueMoveDown
    \/ ListQueue
    \/ Sweep
    \/ Tick

SpecCore == InitApp /\ [][NextCore]_vars

\* The database of the scenario "A (0 recent completions), B (2), C (1)", as
\* earlier operations leave it: B enqueued and completed twice, C once, then
\* A, B, C enqueued (A, C, B by the insertion rule) and B moved up.
InitScenario ==
    /\ now = 0
    /\ queue_items =
        { [id |-> 1, user_id |-> "A", profile_image_url |-> "img1", position |-> 0],
          [id |-> 2, user_id |-> "B", profile_image_url |-> "img1", position |-> 1],
          [id |-> 3, user_id |-> "C", profile_image_url |-> "img1", position |-> 2] }
    /\ participations =
        << [user_id |-> "B", completed_at |-> 0],
           [user_id |-> "B", completed_at |-> 0],
           [user_id |-> "C", completed_at |-> 0] >>
    /\ processed_messages = {}
    /\ in_flight = ""
    /\ enqueued_msgs = {}
    /\ stopped_msgs = {}
    /\ last = [op |-> "init"]
    /\ target_reward_id = "reward1"
    /\ user_cache_ttl_secs = 1
    /\ InitSession

\* The engine's operations on the scenario's database, newcomer included.
NextScenario ==
    \/ EnqueueUser(ScenarioUsers, EngineUrls)
    \/ ApiQueueDelete({"Completed", "Canceled"})
    \/ ApiQueueMoveUp
    \/ ApiQueueMoveDown
    \/ Tick

SpecScenario == InitScenario /\ [][NextScenario]_vars

\* The session task from process start, with the token store's writers
\* (authorization callback, logout, the interactive token check).  The
\* admission pipeline is left to SpecApp and SpecFilter.
NextSession ==
    \/ SessionIterate
    \/ SessionWelcome
    \/ SessionRevocation
    \/ SessionReconnect
    \/ SessionOtherFrame
    \/ SessionDisconnect
    \/ AuthCallback
    \/ AuthLogout
    \/ GetValidAccessToken
    \/ Tick

SpecSession == Init /\ [][NextSession]_vars

\* The session task with its detached cleanup tasks and Helix's subscription
\* list, from the first connection.
NextCleanup ==
    \/ SessionIterate
    \/ SessionWelcomeSpawn
    \/ SessionRevocation
    \/ SessionReconnect
    \/ SessionOtherFrame
    \/ SessionDisconnect
    \/ UpstreamDisconnect
    \/ CleanupList
    \/ CleanupDelete

SpecCleanup == InitApp /\ [][NextCleanup]_vars

\* The read loop with every kind of frame: the admission pipeline between
\* the session protocol's frames, and the operator's removals.
NextFrames ==
    \/ NotifReceiveAnyType
    \/ NotifAdmit
    \/ SessionIterate
    \/ SessionWelcome
    \/ SessionRevocation
    \/ SessionReconnect
    \/ SessionOtherFrame
    \/ SessionDisconnect
    \/ ApiQueueDelete({"Canceled"})

SpecFrames == InitApp /\ [][NextFrames]_vars

\* The engine's calls statement by statement: the session task and a request
\* handler each run one transaction at a time, a reader reads in between.
NextTx ==
    \/ \E c \in TxClients : TxRead(c)
    \/ \E c \in TxClients : TxWrite(c)
    \/ \E c \in TxClients : TxCommit(c)
    \/ ListQueue

SpecTx == InitApp /\ [][NextTx]_vars

\* ------------------------------------------------------------- properties

\* The recent-participation count of user_id at the current time.
RecentCount(user_id) ==
    count_participations(participations, user_id, now - participation_window_secs)

\* The user ids of the rows of q by position 0, 1, ..: defined when the
\* positions of q are 0..count-1.
QueueOrder(q) ==
    [i \in 1..Cardinality(q) |-> (CHOOSE r \in q : r.position = i - 1).user_id]

\* The positions of q are exactly 0..count-1, one row each.
DensePositions(q) ==
    /\ {r.position : r \in q} = 0..(Cardinality(q) - 1)
    /\ \A r1, r2 \in q : r1.position = r2.position => r1 = r2

\* C1: after every enqueue_user, delete_item, move_up and move_down call (failed
\* calls and no-ops included) the positions of the queue entries are exactly
\* 0..count-1, with no duplicate and no gap.
C1_DensePositions == DensePositions(queue_items)

\* C1 witness: a delete succeeded from the middle of the queue and entries remain
\* on both sides of the closed gap.
C1_Witness ==
    /\ last.op = "api_queue_delete"
    /\ last.response = "NO_CONTENT"
    /\ last.position = 1
    /\ Cardinality(queue_items) = 2

\* C2: in every reachable state of the program at most one queue entry exists
\* for any participant id.
C2_OneEntryPerUser ==
    \A r1, r2 \in queue_items : r1.user_id = r2.user_id => r1 = r2

\* C2 witness: the pipeline's enqueue_user found the participant queued by
\* another caller after is_user_queued had answered no.
C2_Witness ==
    /\ last.op = "admit"
    /\ last.outcome = "AlreadyQueued"
    /\ \E r \in queue_items : r.user_id = last.user_id

\* C3: enqueue_user of a participant who is not queued inserts the entry at the
\* smallest position whose entry has a recent count strictly greater than the
\* participant's own, or at count when there is none.
C3_InsertBeforeFirstGreater ==
    [][ (last'.op = "enqueue_user" /\ last'.outcome = "Added")
        => LET i == last'.position
               my == RecentCount(last'.user_id)
           IN /\ \A r \in queue_items :
                    r.position < i => RecentCount(r.user_id) <= my
              /\ \/ i = Cardinality(queue_items)
                 \/ \E r \in queue_items :
                        r.position = i /\ RecentCount(r.user_id) > my
              /\ \E r \in queue_items' :
                    /\ r.id = last'.id
                    /\ r.user_id = last'.user_id
                    /\ r.position = i
      ]_vars

\* C3 witness: an entry was inserted between an entry with an equal count and
\* one with a greater count.
C3_Witness ==
    /\ last.op = "enqueue_user"
    /\ last.outcome = "Added"
    /\ \E r \in queue_items :
        r.position < last.position /\ RecentCount(r.user_id) = RecentCount(last.user_id)
    /\ \E r \in queue_items :
        r.position = last.position + 1 /\ RecentCount(r.user_id) > RecentCount(last.user_id)

\* C4: enqueue_user for a participant who already has a queue entry returns
\* AlreadyQueued and leaves the queue entries and the participation records
\* unchanged (so repeating the call changes nothing either).
C4_AlreadyQueuedIsNoOp ==
    [][ (last'.op \in {"enqueue_user", "admit"}
         /\ last'.outcome # "profile_failed"
         /\ \E r \in queue_items : r.user_id = last'.user_id)
        => /\ last'.outcome = "AlreadyQueued"
           /\ UNCHANGED <<queue_items, participations>>
      ]_vars

\* C4 witness: enqueue_user returned AlreadyQueued for a call that carried other
\* display fields than the stored entry has.
C4_Witness ==
    /\ last.op = "enqueue_user"
    /\ last.outcome = "AlreadyQueued"
    /\ \E r \in queue_items :
        r.user_id = last.user_id /\ r.profile_image_url # last.url

\* C5: delete_item of an existing entry at position p removes it, lowers by one
\* the position of every entry behind p, leaves the entries before p as they
\* are, and appends one participation record for the entry's participant when
\* the mode is Completed and none when it is Canceled.
C5_DeleteClosesGap ==
    [][ (last'.op = "api_queue_delete" /\ \E r \in queue_items : r.id = last'.id)
        => LET item == CHOOSE r \in queue_items : r.id = last'.id
               Shift(pos) == IF pos > item.position THEN pos - 1 ELSE pos
           IN /\ last'.response = "NO_CONTENT"
              /\ queue_items' = {[r EXCEPT !.position = Shift(r.position)]
                                    : r \in queue_items \ {item}}
              /\ participations' =
                    IF last'.mode = "Completed"
                    THEN participations \o
                         <<[user_id |-> item.user_id, completed_at |-> now]>>
                    ELSE participations
      ]_vars

\* C5 witness: a Completed delete removed an entry that had entries on both
\* sides, and its participation record is the newest one.
C5_Witness ==
    /\ last.op = "api_queue_delete"
    /\ last.mode = "Completed"
    /\ last.response = "NO_CONTENT"
    /\ last.position = 1
    /\ Cardinality(queue_items) = 2
    /\ Len(participations) > 0
    /\ participations[Len(participations)].completed_at = now

\* C6: move_up of an entry at position p > 0 exchanges its position with the
\* entry at p-1, move_down of an entry at p < count-1 with the entry at p+1;
\* every other entry keeps its position and no participation record is written.
C6_MoveSwapsNeighbours ==
    [][ \A delta \in {-1, 1} :
          (/\ last'.op = (IF delta = -1 THEN "api_queue_move_up"
                                        ELSE "api_queue_move_down")
           /\ \E r \in queue_items :
                /\ r.id = last'.id
                /\ r.position + delta \in 0..(Cardinality(queue_items) - 1))
          => LET item == CHOOSE r \in queue_items : r.id = last'.id
                 Swap(pos) == IF pos = item.position THEN item.position + delta
                              ELSE IF pos = item.position + delta THEN item.position
                              ELSE pos
             IN /\ last'.response = "NO_CONTENT"
                /\ queue_items' = {[r EXCEPT !.position = Swap(r.position)]
                                      : r \in queue_items}
                /\ participations' = participations
      ]_vars

\* C6 witness: move_up took an entry from the last of three positions to the
\* middle one.
C6_Witness ==
    /\ last.op = "api_queue_move_up"
    /\ last.response = "NO_CONTENT"
    /\ last.position = 2
    /\ Cardinality(queue_items) = 3
    /\ \E r \in queue_items : r.id = last.id /\ r.position = 1

\* C7: move_up of the entry at position 0 and move_down of the entry at the
\* last position return success and leave the whole queue unchanged.
C7_MoveAtEndIsNoOp ==
    [][ (\/ /\ last'.op = "api_queue_move_up"
            /\ \E r \in queue_items : r.id = last'.id /\ r.position = 0
         \/ /\ last'.op = "api_queue_move_down"
            /\ \E r \in queue_items :
                r.id = last'.id /\ r.position = Cardinality(queue_items) - 1)
        => /\ last'.response = "NO_CONTENT"
           /\ UNCHANGED <<queue_items, participations>>
      ]_vars

\* C7 witness: move_down was called on the last of three entries.
C7_Witness ==
    /\ last.op = "api_queue_move_down"
    /\ last.response = "NO_CONTENT"
    /\ last.position = 2
    /\ Cardinality(queue_items) = 3
    /\ \E r \in queue_items : r.id = last.id /\ r.position = 2

\* C8: move_up, move_down and delete_item with an id that matches no queue
\* entry fail with NotFound as surfaced to the caller by the handlers, and
\* leave the queue and the participation records unchanged.
C8_UnknownIdIsNotFound ==
    [][ (/\ last'.op \in {"api_queue_delete", "api_queue_move_up",
                          "api_queue_move_down"}
         /\ ~ \E r \in queue_items : r.id = last'.id)
        => /\ last'.response = "NotFound"
           /\ UNCHANGED <<queue_items, participations>>
      ]_vars

\* The queue is A, B, C in this order with 0, 2 and 1 recent completions, and
\* the newcomer has none.
ScenarioABC ==
    /\ DensePositions(queue_items)
    /\ QueueOrder(queue_items) = <<"A", "B", "C">>
    /\ RecentCount("A") = 0
    /\ RecentCount("B") = 2
    /\ RecentCount("C") = 1
    /\ RecentCount("N") = 0

\* C9 as stated: from the queue A (0 recent completions), B (2), C (1),
\* enqueue_user of a new participant with 0 completions yields A, new, C, B.
C9_AsStated ==
    [][ (ScenarioABC /\ last'.op = "enqueue_user" /\ last'.user_id = "N")
        => QueueOrder(queue_items') = <<"A", "N", "C", "B">>
      ]_vars

\* C9 amended: from that queue, enqueue_user of the new participant inserts it
\* immediately before B and yields A, new, B, C (B and C keep their order).
C9_InsertBeforeB ==
    [][ (ScenarioABC /\ last'.op = "enqueue_user" /\ last'.user_id = "N")
        => /\ last'.outcome = "Added"
           /\ last'.position = 1
           /\ QueueOrder(queue_items') = <<"A", "N", "B", "C">>
      ]_vars

\* C9 witness: the newcomer was enqueued into the scenario's queue, whose other
\* entries still have their 0, 2 and 1 recent completions.
C9_Witness ==
    /\ last.op = "enqueue_user"
    /\ last.user_id = "N"
    /\ last.outcome = "Added"
    /\ last.position = 1
    /\ Cardinality(queue_items) = 4
    /\ {r.user_id : r \in queue_items} = ScenarioUsers
    /\ RecentCount("A") = 0
    /\ RecentCount("B") = 2
    /\ RecentCount("C") = 1
    /\ \E a, b, c \in queue_items :
        /\ a.user_id = "A" /\ b.user_id = "B" /\ c.user_id = "C"
        /\ a.position < b.position /\ b.position < c.position

\* C10: whatever the retention sweep and the handlers do between the
\* deliveries, a message id gets at most one Added outcome of enqueue_user.
C10_AtMostOneAdded ==
    [][ (last'.op = "admit" /\ last'.outcome = "Added")
        => last'.message_id \notin enqueued_msgs
      ]_vars

\* ----------------------------------------------------- session properties

\* A step in which the read loop handled a session_welcome frame whose
\* payload parsed.
WelcomeStep == last'.op = "welcome" /\ last'.parsed

\* C11: a session_reconnect frame never leads to a subscription creation: on
\* the welcome of the session connected to after a read loop that ended with
\* session_reconnect, create_redemption_subscription is not called, whatever
\* frames preceded the session_reconnect.
C11_ReconnectNeverSubscribes ==
    [][(WelcomeStep /\ loop_exit = "session_reconnect")
            => last'.subscribe_calls = 0]_vars

\* C12: after a read loop has ended without session_reconnect, the first
\* session_welcome handled afterwards calls create_redemption_subscription
\* exactly once.
C12_DisconnectResubscribes ==
    [][(WelcomeStep /\ resub_pending)
            => /\ last'.subscribe_calls = 1
               /\ last'.subscribed_session = last'.session_id]_vars

\* C12 witness: a welcome after an unplanned disconnect of a session whose
\* subscription had been created has attempted the resubscription.
C12_Witness ==
    /\ last.op = "welcome"
    /\ last.parsed
    /\ last.pending
    /\ ~last.first
    /\ last.subscribe_calls = 1

\* C15: on a session_welcome, need_subscribe set means exactly one creation
\* attempt for the welcomed session id, whose success clears the flag and
\* whose failure leaves it set; need_subscribe clear means no attempt; only a
\* welcome's successful attempt ever clears the flag; the first welcome after
\* process start attempts a subscription.
C15_WelcomeSubscribesIffNeeded ==
    [][/\ WelcomeStep =>
            /\ need_subscribe =>
                /\ last'.subscribe_calls = 1
                /\ last'.subscribed_session = last'.session_id
                /\ need_subscribe' = ~last'.created
            /\ ~need_subscribe =>
                /\ last'.subscribe_calls = 0
                /\ ~last'.created
                /\ ~need_subscribe'
            /\ ~ever_welcomed => last'.subscribe_calls = 1
       /\ (need_subscribe /\ ~need_subscribe') => (WelcomeStep /\ last'.created)
      ]_vars

\* C15 witness: a welcome whose subscription attempt failed, need_subscribe
\* still set.
C15_Witness ==
    /\ last.op = "welcome"
    /\ last.parsed
    /\ last.subscribe_calls = 1
    /\ ~last.created
    /\ need_subscribe
    /\ pc = "read"

\* C16: a revocation frame sets need_subscribe, does not end the read loop
\* and does not change the endpoint; the next session_welcome handled attempts
\* a subscription creation.
C16_RevocationForcesResubscribe ==
    [][/\ last'.op = "revocation" =>
            /\ need_subscribe'
            /\ pc' = "read"
            /\ ws_url' = ws_url
       /\ (WelcomeStep /\ revoked_pending) => last'.subscribe_calls = 1
      ]_vars

\* C16 witness: a welcome handled after a revocation, in a session whose
\* subscription had been created before, has attempted a creation.
C16_Witness ==
    /\ last.op = "welcome"
    /\ last.parsed
    /\ last.revoked
    /\ ~last.first
    /\ ~last.pending
    /\ last.subscribe_calls = 1

\* C17: connect_async is called only in an iteration that leaves a stored
\* token expiring more than 60 seconds ahead and a resolved broadcaster id;
\* without a token, on a failed refresh or on a failed identity lookup the
\* iteration restarts without connecting.
C17_ConnectNeedsTokenAndIdentity ==
    [][last'.op = "iterate" =>
        /\ last'.connect_attempted =>
            /\ oauth_token.present
            /\ oauth_token'.present
            /\ oauth_token'.expires_at > now + EXPIRY_MARGIN_SECS
            /\ broadcaster_id' # ""
        /\ ~oauth_token.present => ~last'.connect_attempted
        /\ last'.outcome \in {"no_token", "refresh_failed", "identity_failed"} =>
            /\ ~last'.connect_attempted
            /\ pc' = "outer"
            /\ ws_url' = ws_url
      ]_vars

\* C17 witness: an iteration found the stored token inside the margin,
\* refreshed it and connected.
C17_Witness ==
    /\ last.op = "iterate"
    /\ last.outcome = "connected"
    /\ last.refreshed
    /\ oauth_token.expires_at > now + EXPIRY_MARGIN_SECS
    /\ token = oauth_token
    /\ pc = "read"

\* C18: every upstream call that carries the access token uses a token whose
\* remaining lifetime is more than 60 seconds: the subscription creation on a
\* welcome and the calls behind get_valid_access_token.
C18_NoCallWithinExpiryMargin ==
    [][/\ (last'.op = "welcome" /\ last'.subscribe_calls = 1)
            => last'.token_expires_at > now + EXPIRY_MARGIN_SECS
       /\ (last'.op = "get_valid_access_token" /\ last'.response = "Ok")
            => last'.used_expires_at > now + EXPIRY_MARGIN_SECS
      ]_vars

\* C19: get_valid_access_token answers Unauthorized both for a missing token
\* and for a failed refresh; in the session loop a failed refresh makes the
\* iteration restart without a connection attempt.
C19_TokenFailuresAreUnauthorized ==
    [][/\ (last'.op = "get_valid_access_token"
              /\ last'.cause \in {"missing", "refresh_failed"})
            => last'.response = "Unauthorized"
       /\ (last'.op = "iterate" /\ last'.outcome = "refresh_failed")
            => (~last'.connect_attempted /\ pc' = "outer")
      ]_vars

\* --------------------------------------------------- admission properties

\* The notification frame with the given message id.
FrameOf(message_id) == CHOOSE f \in Frames : f.message_id = message_id

\* C20: a notification leads to no enqueue when no target reward id is
\* configured, nor when the event's reward id differs from the configured
\* one: the pipeline calls enqueue_user, and changes the queue, only for an
\* event whose reward id equals the configured non-blank target.
C20_EnqueueOnlyForTarget ==
    [][/\ (last'.op = "admit" /\ last'.outcome # "profile_failed") =>
            /\ ~is_blank(target_reward_id)
            /\ FrameOf(last'.message_id).reward_id = target_reward_id
       /\ (last'.op = "notification"
              /\ \/ is_blank(target_reward_id)
                 \/ FrameOf(last'.message_id).reward_id # target_reward_id) =>
            /\ in_flight' = ""
            /\ queue_items' = queue_items
       /\ is_blank(target_reward_id) => queue_items' = {}
      ]_vars

\* C20 witness: with a whitespace-only target, a fresh notification has been
\* marked in the ledger and discarded as "target not set".
C20_Witness ==
    /\ target_reward_id = " "
    /\ last.op = "notification"
    /\ last.discard = "target_not_set"
    /\ is_processed_message(processed_messages, last.message_id)
    /\ queue_items = {}

\* ------------------------------------------------- concurrency properties

\* C13: a reader outside any transaction (list_queue, is_user_queued) that
\* runs concurrently with enqueue_user, delete_item or move_by observes the
\* queue as it was before the operation or as it is after it: the observed
\* rows have dense positions, and the readable tables only ever change by one
\* whole operation.
C13_ReadersSeeWholeOperations ==
    [][/\ last'.op = "list_queue" =>
            /\ DensePositions(last'.observed)
            /\ \A r1, r2 \in last'.observed : r1.user_id = r2.user_id => r1 = r2
       /\ (queue_items' # queue_items \/ participations' # participations) =>
            \E c \in TxClients :
                /\ txs[c].pc # "idle"
                /\ queue_items' =
                     CallResult(txs[c].call, queue_items, participations, now).queue_items
                /\ participations' =
                     CallResult(txs[c].call, queue_items, participations, now).participations
      ]_vars

\* C13 witness: list_queue has run while a transaction was between two of
\* its write statements, its own tables having a gap or a duplicate position.
C13_Witness ==
    /\ last.op = "list_queue"
    /\ \E c \in TxClients :
        /\ txs[c].pc = "write"
        /\ txs[c].done >= 1
        /\ ~DensePositions(txs[c].plan[txs[c].done].queue_items)
        /\ last.observed # txs[c].plan[txs[c].done].queue_items

\* C14: when the session task's enqueue_user and a handler's delete_item /
\* move_up / move_down run concurrently, every commit leaves the tables as the
\* whole operation leaves them when run on the tables current at commit (some
\* serial order), and the positions dense.
C14_CommitsAreSerial ==
    [][last'.op = "tx_commit" =>
        /\ queue_items' =
             CallResult(txs[last'.client].call, queue_items, participations,
                        now).queue_items
        /\ participations' =
             CallResult(txs[last'.client].call, queue_items, participations,
                        now).participations
        /\ DensePositions(queue_items')
      ]_vars

\* C14 witness: a transaction has committed while the other client's
\* transaction, which had read the tables before, was still open.
C14_Witness ==
    /\ last.op = "tx_commit"
    /\ queue_items # {}
    /\ \E d \in TxClients : txs[d].pc = "write" /\ txs[d].stale

\* ------------------------------------------------------------------ C21
\* The rows user_cache holds for a user.
CachedRows(user_id) == {c \in user_cache : c.user_id = user_id}

ProfileFetchFailedStep ==
    /\ last'.op = "admit"
    /\ profile_last'.called
    /\ ~profile_last'.helix.ok

\* C22 as stated: whenever the profile fetch fails for a notification whose
\* id was new, whose reward is the target and whose participant was not
\* queued, the pipeline still calls enqueue_user.
C22_AsStated ==
    [][ProfileFetchFailedStep => last'.outcome \in {"Added", "AlreadyQueued"}]_vars

\* C22: when the profile fetch fails for such a notification, the pipeline
\* calls enqueue_user with the cached avatar if the participant has a cached
\* profile; with none cached it drops the notification and the queue is
\* unchanged.
C22_FetchFailureFallsBackToCache ==
    [][ProfileFetchFailedStep =>
        LET cached == CachedRows(last'.user_id)
        IN IF cached # {}
           THEN /\ last'.outcome \in {"Added", "AlreadyQueued"}
                /\ last'.outcome = "Added" =>
                     \E r \in queue_items', c \in cached :
                        /\ r.id = last'.id
                        /\ r.user_id = last'.user_id
                        /\ r.profile_image_url = c.profile_image_url
           ELSE /\ last'.outcome = "profile_failed"
                /\ queue_items' = queue_items
    ]_vars

\* C22 witness: Helix failed, the participant had a cached profile, and the
\* notification was enqueued with the cached avatar.
C22_Witness ==
    /\ last.op = "admit"
    /\ last.outcome = "Added"
    /\ profile_last.called
    /\ ~profile_last.helix.ok
    /\ \E r \in queue_items, c \in CachedRows(last.user_id) :
        /\ r.id = last.id
        /\ r.profile_image_url = c.profile_image_url

C25_AddedShiftsLaterEntries ==
    [][(last'.op = "enqueue_user" /\ last'.outcome = "Added") =>
        LET pos == last'.position
            new == {r \in queue_items' : r.id = last'.id}
        IN /\ \A r \in queue_items : r.id # last'.id
           /\ Cardinality(new) = 1
           /\ \A r \in new : r.position = pos /\ r.user_id = last'.user_id
           /\ Cardinality(queue_items') = Cardinality(queue_items) + 1
           /\ \A r \in queue_items :
                IF r.position < pos
                THEN r \in queue_items'
                ELSE [r EXCEPT !.position = r.position + 1] \in queue_items'
           /\ \A r1, r2 \in queue_items : \A n1, n2 \in queue_items' :
                (n1.id = r1.id /\ n2.id = r2.id /\ r1.position < r2.position)
                    => n1.position < n2.position
    ]_vars

\* C25 witness: an entry added at position 1 of a queue of three, between an
\* entry that stayed at 0 and entries that moved to 2 and 3.
C25_Witness ==
    /\ last.op = "enqueue_user"
    /\ last.outcome = "Added"
    /\ last.position = 1
    /\ Cardinality(queue_items) >= 3

\* ------------------------------------------------------------------ C26
\* C26: a notification of the subscribed type whose id is not in the ledger
\* has its id written before anything else is done with it (whatever the
\* filter and the membership check then decide, and before the profile lookup
\* and enqueue_user); and once the handling of an id has ended after the
\* write without an entry being added, every later delivery of that id is
\* discarded as a duplicate and never leads to an added entry.
C26_MarkedBeforeProcessedAtMostOnce ==
    [][/\ (/\ last'.op = "notification"
           /\ FrameOf(last'.message_id).subscription_type = SUB_TYPE_REDEMPTION_ADD
           /\ ~is_processed_message(processed_messages, last'.message_id))
            => is_processed_message(processed_messages', last'.message_id)
       /\ (last'.op = "notification" /\ in_flight' # "")
            => is_processed_message(processed_messages', in_flight')
       /\ (last'.op = "notification" /\ last'.message_id \in stopped_msgs)
            => last'.discard = "duplicate"
       /\ (last'.op = "admit" /\ last'.outcome = "Added")
            => last'.message_id \notin stopped_msgs
    ]_vars

\* ------------------------------------------------------------------ C27
\* C27: a pass of the retention sweep removes only ledger rows whose
\* received_at is older than the TTL, and never the row of the notification
\* whose handling is under way (written to the ledger, its profile lookup and
\* enqueue_user still to come).
C27_SweepSparesInFlight ==
    [][last'.op = "sweep" =>
        /\ processed_messages' \subseteq processed_messages
        /\ \A r \in processed_messages \ processed_messages' :
              r.received_at < now - processed_message_ttl_secs
        /\ \A r \in processed_messages :
              r.received_at >= now - processed_message_ttl_secs
                  => r \in processed_messages'
        /\ in_flight # "" => is_processed_message(processed_messages', in_flight)
    ]_vars

\* ------------------------------------------------------------------ C28
\* C28: when the read loop ends without a session_reconnect carrying a URL
\* (the connection closes, a read fails, the stream ends, or a
\* session_reconnect comes without reconnect_url), need_subscribe is true and
\* the endpoint is the default one from then until the next connection
\* attempt, which targets the default endpoint.
C28_ExitWithoutReconnectResets ==
    [][/\ (\/ last'.op = "disconnect"
           \/ (last'.op = "session_reconnect" /\ last'.ended = "no_reconnect_url"))
            => /\ pc' = "outer"
               /\ need_subscribe'
               /\ ws_url' = EVENTSUB_WS_URL
       /\ (/\ last'.op = "iterate"
           /\ last'.connect_attempted
           /\ loop_exit = "disconnect")
            => /\ need_subscribe
               /\ ws_url = EVENTSUB_WS_URL
               /\ last'.url = EVENTSUB_WS_URL
    ]_vars

\* C28 witness: the session connected again after a read loop that ended
\* without session_reconnect, to the default endpoint and with need_subscribe
\* set.
C28_Witness ==
    /\ last.op = "iterate"
    /\ last.outcome = "connected"
    /\ last.after_exit = "disconnect"
    /\ last.url = EVENTSUB_WS_URL
    /\ need_subscribe
    /\ ever_welcomed

\* ------------------------------------------------------------------ C29
\* C29: a session_reconnect frame with a reconnect URL sets the endpoint to
\* that URL and ends the read loop, and the next connection attempt targets
\* that endpoint with need_subscribe false.
C29_ReconnectKeepsSubscription ==
    [][/\ (last'.op = "session_reconnect" /\ last'.ended = "reconnect")
            => /\ pc' = "outer"
               /\ ws_url' = last'.reconnect_url
               /\ ~need_subscribe'
       /\ (/\ last'.op = "iterate"
           /\ last'.connect_attempted
           /\ loop_exit = "session_reconnect")
            => /\ last'.url = ws_url
               /\ ~need_subscribe
    ]_vars

\* ------------------------------------------------------------------ C30
\* C30: when a storage statement (or the commit) of enqueue_user, delete_item
\* or move_by fails after the transaction has begun, the call returns an
\* error, its transaction is gone with its lock, and none of its writes is
\* visible: the tables are as the step found them, and if the call had
\* already executed a write they are exactly as they were when it began.
C30_FailedCallLeavesNoWrite ==
    [][(last'.op = "tx_done" /\ last'.storage_error) =>
        LET c == last'.client IN
        /\ txs[c].pc \in {"write", "commit"}
        /\ txs[c].call.fn \in {"enqueue_user", "delete_item", "move_up", "move_down"}
        /\ ~last'.committed
        /\ txs'[c] = NoTx
        /\ db_lock' # c
        /\ queue_items' = queue_items
        /\ participations' = participations
        /\ txs[c].done >= 1 =>
              <<queue_items', participations'>> = txs[c].before
    ]_vars

\* C30 witness: a completing removal failed after its first two write
\* statements had executed.
C30_Witness ==
    /\ last.op = "tx_done"
    /\ last.storage_error
    /\ last.fn = "delete_item"
    /\ last.done >= 2

\* ------------------------------------------------------------------ C31
\* C31: a cleanup task starts only in a welcome step whose
\* create_redemption_subscription succeeded; while tasks run the read loop
\* can take its next frame, and the frames it takes leave the running tasks
\* alone; no step of a cleanup task, whether it succeeds or fails, changes
\* need_subscribe, the endpoint, the connection or anything stored; and a
\* task deletes only subscriptions of the redemption type with the websocket
\* transport for the own broadcaster whose status is not enabled.
C31_CleanupIsDetached ==
    [][/\ Len(cleanups') > Len(cleanups) =>
            /\ last'.op = "welcome"
            /\ last'.created
            /\ cleanups' = Append(cleanups, cleanups'[Len(cleanups')])
       /\ (last'.op = "welcome" /\ ~last'.created) => cleanups' = cleanups
       /\ last'.op \in {"iterate", "revocation", "session_reconnect",
                        "other_frame", "disconnect"} => cleanups' = cleanups
       /\ (pc = "read" /\ in_flight = "") => ENABLED SessionOtherFrame
       /\ last'.op \in {"cleanup_list", "cleanup_delete"} =>
            /\ UNCHANGED <<sessionVars, queue_items, participations,
                           pipelineVars, user_cache>>
            /\ upstream_subs' \subseteq upstream_subs
            /\ \A x \in upstream_subs \ upstream_subs' :
                /\ x.id = last'.deleted
                /\ x.typ = SUB_TYPE_REDEMPTION_ADD
                /\ x.method = "websocket"
                /\ x.broadcaster_user_id = broadcaster_id
                /\ x.status # "enabled"
    ]_vars

\* C31 witness: the read loop has just handled a frame while a cleanup task
\* that has already deleted a subscription is still running.
C31_Witness ==
    /\ last.op = "other_frame"
    /\ Len(cleanups) = 1
    /\ cleanups[1].pc = "delete"
    /\ \A x \in upstream_subs : x.id # "w1"

\* ------------------------------------------------------------------ C32
\* The steps in which the read loop takes a frame.
FrameOps ==
    {"notification", "welcome", "revocation", "session_reconnect",
     "other_frame", "disconnect"}

\* C32: the read loop takes a frame only when no notification is being
\* handled; a notification under way (ledger check and write done, profile
\* call and enqueue_user to come) is completed by its own admission step and
\* is never replaced by another one.
C32_FramesOneAtATime ==
    [][/\ last'.op \in FrameOps => in_flight = ""
       /\ last'.op = "admit" =>
            /\ in_flight = last'.message_id
            /\ in_flight' = ""
       /\ (in_flight # "" /\ in_flight' # "") => in_flight' = in_flight
       /\ (last'.op = "notification" /\ in_flight' # "") =>
            /\ in_flight' = last'.message_id
            /\ is_processed_message(processed_messages', in_flight')
    ]_vars

\* C32 witness: a second notification is taken up for its profile call after
\* the first one has been handled to the end.
C32_Witness ==
    /\ last.op = "notification"
    /\ in_flight = "m2"
    /\ "m1" \in enqueued_msgs

\* ------------------------------------------------------------------ C33
\* C33: a notification whose message id is in the ledger, whose reward is not
\* the configured target (or no target is configured), or whose participant
\* has an entry is discarded before the profile lookup: the step leaves
\* nothing in flight and changes neither the queue nor the profile cache, and
\* the profile lookup only runs for the notification left in flight.
C33_DiscardsBeforeProfileLookup ==
    [][/\ last'.op = "notification" =>
            LET f == FrameOf(last'.message_id)
                duplicate == \E r \in processed_messages :
                                r.message_id = f.message_id
                off_target == \/ target_reward_id \in {"", " "}
                              \/ f.reward_id # target_reward_id
                queued == \E r \in queue_items : r.user_id = f.user_id
            IN /\ (duplicate \/ off_target \/ queued) =>
                    /\ last'.discard # ""
                    /\ in_flight' = ""
               /\ last'.discard # "" => in_flight' = ""
               /\ UNCHANGED <<queue_items, participations, user_cache, profile_last>>
       /\ last'.op = "admit" =>
            /\ in_flight # ""
            /\ last'.message_id = in_flight
    ]_vars

\* C33 witness: a notification for a participant who already has an entry was
\* discarded, the queue as it was.
C33_Witness ==
    /\ last.op = "notification"
    /\ last.discard = "already_queued"
    /\ in_flight = ""
    /\ \E r \in queue_items : r.user_id = last.user_id

\* ------------------------------------------------------------------ C34
\* C34: when only enqueue_user and delete_item change the queue and no
\* participation record leaves the lookback window, the entries in position
\* order have non-decreasing counts of recent participations.
C34_CountsNonDecreasing ==
    \A r1, r2 \in queue_items :
        r1.position < r2.position
            => RecentCount(r1.user_id) <= RecentCount(r2.user_id)

\* C34 witness: a participant without recent participation was enqueued
\* after a participant with one, and stands before them.
C34_Witness ==
    /\ last.op = "enqueue_user"
    /\ last.outcome = "Added"
    /\ RecentCount(last.user_id) = 0
    /\ \E r1, r2 \in queue_items :
        /\ r1.id = last.id
        /\ r2.id < r1.id
        /\ r1.position < r2.position
        /\ RecentCount(r2.user_id) = 1

\* ------------------------------------------------------------------ C35
\* C35: the session task never terminates: whatever frame or error it meets,
\* a malformed session_welcome or session_reconnect payload, an unparsable
\* reconnect URL or a storage error included, it is in the outer loop or in
\* the read loop, from which it attempts a connection again.
C35_SessionTaskNeverTerminates == pc \in {"outer", "read"}

\* ------------------------------------------------------------------ C36
\* C36: between any two successful subscription creations by the session
\* task there is a revocation frame or a read-loop exit without
\* session_reconnect: a welcome never creates a subscription while the last
\* creation has been followed by neither.
C36_CreationsSeparated ==
    [][
       (last'.op = "welcome" /\ last'.created) => since_create # "quiet"
    ]_vars

\* C36 witness: a subscription was created after an earlier creation, a
\* revocation frame or a read-loop exit without session_reconnect in between.
C36_Witness ==
    /\ last.op = "welcome"
    /\ last.created
    /\ last.since = "event"
    /\ since_create = "quiet"

\* ------------------------------------------------------------------ C37
\* An iteration of the outer loop that ended before the read loop without
\* ending the task: no stored token, a failed refresh, a failed identity
\* lookup or a failed connection attempt.
FailedIterationStep ==
    /\ last'.op = "iterate"
    /\ last'.outcome \in {"no_token", "refresh_failed", "identity_failed",
                          "connect_failed"}

\* The frame part of C37 alone: such an iteration leaves need_subscribe and
\* the endpoint URL as they were.
FailedIterationKeepsFlagAndUrl ==
    [][
       FailedIterationStep =>
            /\ need_subscribe' = need_subscribe
            /\ ws_url' = ws_url
    ]_vars

\* C37: a failed connection attempt, a missing token, a failed refresh and a
\* failed identity lookup each leave need_subscribe and the endpoint URL
\* unchanged; after a session_reconnect the client so keeps retrying the
\* migration endpoint with need_subscribe = false.
C37_FailedIterationKeepsState ==
    [][
       FailedIterationStep =>
            /\ need_subscribe' = need_subscribe
            /\ ws_url' = ws_url
            /\ last'.after_exit = "session_reconnect" =>
                    /\ ws_url' = "wss://reconnect"
                    /\ ~need_subscribe'
    ]_vars

\* ------------------------------------------------------------------ C38
\* C38: for an entry not at position 0, move_up(id) directly followed by
\* move_down(id) leaves the queue exactly as it was before the two calls;
\* likewise move_down(id) directly followed by move_up(id) for an entry that
\* is not the last one.
C38_OppositeMovesRestore ==
    [][
       /\ ( /\ last.op = "api_queue_move_up"
            /\ last.position > 0
            /\ last'.op = "api_queue_move_down"
            /\ last'.id = last.id )
            => queue_items' = last.before
       /\ ( /\ last.op = "api_queue_move_down"
            /\ last.position >= 0
            /\ \E r \in last.before : r.position > last.position
            /\ last'.op = "api_queue_move_up"
            /\ last'.id = last.id )
            => queue_items' = last.before
    ]_vars

\* C38 witness: move_down directly after move_up of the same entry, which
\* was not the first one: the first call changed the table, the second
\* changed it again.
C38_Witness ==
    /\ last.op = "api_queue_move_down"
    /\ last.after_opposite
    /\ last.position >= 0
    /\ last.position < Cardinality(queue_items) - 1
    /\ last.before # queue_items
    /\ Cardinality(queue_items) >= 3

\* ------------------------------------------------------------------ C39
\* The read loop has taken a frame it ignores: a notification whose
\* subscription type is not the redemption-add type, session_keepalive, an
\* unknown message type, text that is no envelope, or a ping.
IgnoredFrameStep ==
    \/ /\ last'.op = "notification"
       /\ last'.subscription_type # SUB_TYPE_REDEMPTION_ADD
    \/ last'.op = "other_frame"

\* C39: a notification frame whose subscription type is not the
\* redemption-add type changes no state at all: its message id is not added
\* to the dedup ledger and nothing is enqueued; session_keepalive, ping and
\* unknown message types likewise change neither the session flags nor
\* stored state.
C39_IgnoredFramesChangeNothing ==
    [][
       IgnoredFrameStep =>
            /\ UNCHANGED <<now, queue_items, participations, pipelineVars,
                           target_reward_id, sessionVars, txVars, cacheVars,
                           cleanupVars>>
            /\ last'.op = "notification" =>
                    /\ ~is_processed_message(processed_messages',
                                             last'.message_id)
                    /\ last'.message_id \notin enqueued_msgs'
                    /\ in_flight' = ""
    ]_vars

\* C39 witness: a notification of another subscription type was taken while
\* the ledger held other ids and its participant had no entry; its id is not
\* in the ledger and the queue is empty.
C39_Witness ==
    /\ last.op = "notification"
    /\ last.subscription_type # SUB_TYPE_REDEMPTION_ADD
    /\ processed_messages # {}
    /\ ~is_processed_message(processed_messages, last.message_id)
    /\ target_reward_id = "reward1"
    /\ queue_items = {}
    /\ in_flight = ""

====
